---- MODULE Spec2Model ----
(***************************************************************************)
(* SimpleLogger (simplog.c): the message formatting and dispatch pipeline, *)
(* the settings state, the log flush, the configuration loader and the     *)
(* stack-trace writer, as a state machine over the process' settings, the  *)
(* file system, errno and the system calls each operation issues.          *)
(*                                                                         *)
(* Text is a sequence of fragments [s, n, w]: s names the bytes, n is      *)
(* their count (strlen), w tells that the bytes went through wrapLines.    *)
(* A fragment named " " is n spaces and one named "\n" is a newline; in a   *)
(* text that is handed to wrapLines no other fragment holds either byte.   *)
(***************************************************************************)
EXTENDS Integers, Sequences, FiniteSets, TLC

VARIABLES
    dbgLevel,    \* static int  dbgLevel
    logFile,     \* static char logFile[255]
    silentMode,  \* static bool silentMode
    lineWrap,    \* static bool lineWrap
    errno,       \* the process' error indicator
    fs,          \* the file system: path -> [exists, data]
    proc,        \* [alive, code]: the host process and its exit status
    io,          \* the system calls issued by the operation that ran last
    last,        \* the operation that ran last, with its arguments
    pre,         \* the settings, errno and file system that operation started from
    nops,        \* number of public operations called so far
    pipes,       \* streams opened with popen() and not closed yet
    calls        \* the writeLog call of each thread that is inside one

vars == <<dbgLevel, logFile, silentMode, lineWrap, errno, fs, proc, io, last, pre, nops, pipes,
          calls>>

----------------------------------------------------------------------------
(* Program constants *)

SIMPLOG_FATAL   == -2
SIMPLOG_ERROR   == -1
SIMPLOG_INFO    == 0
SIMPLOG_WARN    == 1
SIMPLOG_DEBUG   == 2
SIMPLOG_VERBOSE == 3
SIMPLOG_LOGGER  == 4
SIMPLOG_TRACE   == 5

max_va_list_size == 4146
lineWidth == 80

STDOUT_FILENO == 1
STDERR_FILENO == 2
\* the lowest free descriptor of a process that holds only the standard streams
LOG_FD == 3

ENOENT == 2
EINTR  == 4
EBADF  == 9
EACCES == 13

(* Bounds of the model *)

\* public operations per behaviour
MaxOps == 2
\* level values tried below SIMPLOG_FATAL and above SIMPLOG_TRACE
ExtraLevels == 1
\* how many bytes past the render buffer's capacity a rendered text may run
MaxOver == 1

----------------------------------------------------------------------------
(* Text *)

Lit(str) == [s |-> str, n |-> Len(str), w |-> FALSE]

Run(name, k) == [s |-> name, n |-> k, w |-> FALSE]

RECURSIVE strlen(_)
strlen(t) == IF t = <<>> THEN 0 ELSE Head(t).n + strlen(Tail(t))

\* the first k bytes of a text
RECURSIVE Take(_, _)
Take(t, k) ==
    IF t = <<>> \/ k <= 0 THEN <<>>
    ELSE IF Head(t).n <= k THEN <<Head(t)>> \o Take(Tail(t), k - Head(t).n)
    ELSE <<[Head(t) EXCEPT !.n = k]>>

\* k spaces
Sp(k) == Run(" ", k)

NL == Lit("\n")

\* the text after the first k bytes of a text
RECURSIVE Drop(_, _)
Drop(t, k) ==
    IF t = <<>> \/ k <= 0 THEN t
    ELSE IF Head(t).n <= k THEN Drop(Tail(t), k - Head(t).n)
    ELSE <<[Head(t) EXCEPT !.n = @ - k]>> \o Tail(t)

\* strrchr( t, c ): the position of the last byte c of t, counted from 1, and
\* 0 (NULL) when t has no such byte
strrchr(t, c) ==
    LET at == {i \in DOMAIN t : t[i].s = c}
    IN  IF at = {} THEN 0
        ELSE strlen(SubSeq(t, 1, CHOOSE i \in at : \A j \in at : j <= i))

COL_NORM    == Run("\\x1B[0m", 4)
COL_FATAL   == Run("\\x1B[31m", 5)
COL_ERROR   == Run("\\x1B[91m", 5)
COL_INFO    == Run("\\x1B[37m", 5)
COL_WARN    == Run("\\x1B[33m", 5)
COL_DEBUG   == Run("\\x1B[94m", 5)
COL_VERBOSE == Run("\\x1B[36m", 5)
COL_LOGGER  == Run("\\x1B[90m", 5)
COL_TRACE   == Run("\\x1B[95m", 5)

\* what an uninitialized buffer reads as, up to its first NUL byte: nothing
\* when that is its first byte, else (junk) at least one stray byte
Uninit(junk) == IF junk THEN <<Run("<uninitialized>", 1)>> ELSE <<>>

strerror(e) ==
    CASE e = 0      -> Lit("Success")
      [] e = ENOENT -> Lit("No such file or directory")
      [] e = EINTR  -> Lit("Interrupted system call")
      [] e = EBADF  -> Lit("Bad file descriptor")
      [] e = EACCES -> Lit("Permission denied")
      [] OTHER      -> Lit("Unknown error")

\* [yyyy-mm-dd hh:mm:ss] of the local time, every field zero-padded
getDateString == <<Lit("[yyyy-mm-dd"), Sp(1), Lit("hh:mm:ss]")>>

\* the 30 spaces and the tab that continue a record on a new line
indentedLineSpacing == <<Sp(30), Lit("\t")>>

\* vsnprintf( buf, size, str, args ): what buf holds, at most size - 1 bytes
vsnprintf(text, size) == Take(text, size - 1)

Min(a, b) == IF a < b THEN a ELSE b

\* sizeof( wrapText )
wrapText_size == 255

\* lines 770-781, 786-796: the last space of tempBuf, at returnPos, becomes a
\* newline, and the text that was after it follows the indent
wrapAt(tempBuf, returnPos) ==
    Take(tempBuf, returnPos - 1) \o <<NL>> \o indentedLineSpacing
    \o Drop(tempBuf, returnPos)

\* lines 767-807: the loop, from the pass that starts at offset b.i of msg.
\* b.fault tells what ended it early: "null" the dereference of the NULL that
\* strrchr returned, "size" a strncpy with a negative lineFeedSize, which as a
\* size_t is more than any buffer holds, "overrun" a store past the end of
\* wrapText or tempBuf (a tempBuf filled to its last byte has no terminator).
\* The next pass is written as the one element of a set so that the buffer it
\* starts from is computed once.
RECURSIVE wrapLoop(_, _, _)
wrapLoop(b, msg, msgSize) ==
    LET rest      == Drop(msg, b.i)
        returnPos == strrchr(b.tempBuf, " ")
        lastLine  == strrchr(b.tempBuf, "\n")
        wrapText  == Drop(b.tempBuf, returnPos)
        wrapped   == wrapAt(b.tempBuf, returnPos)
        lineFeedSize == Min(strlen(rest), lineWidth)
                          - strlen(indentedLineSpacing) - strlen(wrapText)
        stop(why) == [b EXCEPT !.fault = why]
        pass(tempBuf, lfs) ==
            IF strlen(tempBuf) >= msgSize
            THEN [b EXCEPT !.tempBuf = tempBuf, !.fault = "overrun"]
            ELSE CHOOSE r \in {wrapLoop(next, msg, msgSize) :
                                  next \in {[tempBuf |-> tempBuf, i |-> b.i + lfs,
                                             lineFeedSize |-> lfs, fault |-> "none"]}} : TRUE
    IN  IF b.i >= strlen(msg) THEN b
        ELSE IF strlen(rest) + strlen(indentedLineSpacing) > lineWidth
        THEN IF returnPos = 0 THEN stop("null")
             ELSE IF strlen(wrapText) >= wrapText_size \/ strlen(wrapped) >= msgSize
             THEN stop("overrun")
             ELSE IF lineFeedSize < 0 THEN stop("size")
             ELSE pass(wrapped \o Take(rest, lineFeedSize), lineFeedSize)
        ELSE IF lastLine = 0 THEN stop("null")
        ELSE IF strlen(b.tempBuf) - lastLine + 1 + strlen(rest) > lineWidth
        THEN IF returnPos = 0 THEN stop("null")
             ELSE IF strlen(wrapText) >= wrapText_size \/ strlen(wrapped) >= msgSize
             THEN stop("overrun")
             ELSE pass(wrapped \o rest, b.lineFeedSize)
        ELSE pass(b.tempBuf \o rest, b.lineFeedSize)

\* lines 743-815: what msg holds when wrapLines returns, and the fault that
\* kept it from returning in order; after an overrun that went unnoticed msg
\* holds the bytes that fit and whatever the stray stores left behind them
wrapLines(msg, msgSize) ==
    LET copyBack(b) ==
            LET copy == Take(b.tempBuf, msgSize - 1)
                out  == IF b.fault = "overrun" THEN copy \o Uninit(TRUE)
                        ELSE IF copy # <<>> /\ copy[Len(copy)].s # "\n"
                        THEN copy \o <<NL>>
                        ELSE copy
            IN  [msg |-> [i \in DOMAIN out |-> [out[i] EXCEPT !.w = TRUE]],
                 fault |-> b.fault]
    IN  copyBack(wrapLoop([tempBuf |-> Take(msg, lineWidth), i |-> lineWidth,
                           lineFeedSize |-> lineWidth, fault |-> "none"],
                          msg, msgSize))

----------------------------------------------------------------------------
(* The file system and the system calls *)

Paths == {"default.log", "x.log", "nodir/x.log", "ro/x.log"}
\* a path whose directory does not exist: open fails with ENOENT
NoDir == {"nodir/x.log"}
\* a path in a directory without write permission: no create, no remove
ReadOnlyDir == {"ro/x.log"}

Absent == [exists |-> FALSE, data |-> <<>>]

Ev(call, fd, path, data) == [call |-> call, fd |-> fd, path |-> path, data |-> data]

\* open( path, O_CREAT | ... ): S.ret is the descriptor, -1 on failure
open(S, path) ==
    IF S.fs[path].exists
    THEN [S EXCEPT !.ret = LOG_FD, !.fd3 = path,
                   !.io = Append(@, Ev("open", LOG_FD, path, <<>>))]
    ELSE IF path \in NoDir \cup ReadOnlyDir
    THEN [S EXCEPT !.ret = -1,
                   !.errno = IF path \in NoDir THEN ENOENT ELSE EACCES,
                   !.io = Append(@, Ev("open", -1, path, <<>>))]
    ELSE [S EXCEPT !.ret = LOG_FD, !.fd3 = path,
                   !.fs[path] = [exists |-> TRUE, data |-> <<>>],
                   !.io = Append(@, Ev("open", LOG_FD, path, <<>>))]

\* write on a log descriptor that was opened without O_APPEND
write_fromStart(S, fd, data) ==
    IF fd = -1
    THEN [S EXCEPT !.errno = EBADF, !.io = Append(@, Ev("write", fd, "", data))]
    ELSE IF fd = LOG_FD
    THEN [S EXCEPT !.fs[S.fd3].data = <<data>>,
                   !.io = Append(@, Ev("write", fd, S.fd3, data))]
    ELSE [S EXCEPT !.io = Append(@, Ev("write", fd, "", data))]

\* write( fd, data, strlen( data ) ); the log descriptor is opened O_APPEND
write(S, fd, data) ==
    IF fd = -1
    THEN [S EXCEPT !.errno = EBADF, !.io = Append(@, Ev("write", fd, "", data))]
    ELSE IF fd = LOG_FD
    THEN [S EXCEPT !.fs[S.fd3].data = Append(@, data),
                   !.io = Append(@, Ev("write", fd, S.fd3, data))]
    ELSE [S EXCEPT !.io = Append(@, Ev("write", fd, "", data))]

close(S, fd) ==
    IF fd = -1
    THEN [S EXCEPT !.errno = EBADF, !.io = Append(@, Ev("close", fd, "", <<>>))]
    ELSE [S EXCEPT !.fd3 = "", !.io = Append(@, Ev("close", fd, S.fd3, <<>>))]

----------------------------------------------------------------------------
(* writeLog *)

\* a format string and its arguments: strlen( str ) and the text they render to
Msg(fmt, text) == [fmt |-> fmt, text |-> text]

\* a format string without conversions
Plain(str) == Msg(Len(str), <<Lit(str)>>)

\* a tab, a level name padded with spaces, a colon and a space
Label(name, pad) == <<Lit("\t" \o name), Sp(pad), Lit(":"), Sp(1)>>

\* levelLabel with a label of its own for the verbose level
levelLabel_verboseOwnLabel(loglvl) ==
    CASE loglvl = SIMPLOG_FATAL   -> Label("FATAL", 1)
      [] loglvl = SIMPLOG_ERROR   -> Label("ERROR", 1)
      [] loglvl = SIMPLOG_INFO    -> Label("INFO", 2)
      [] loglvl = SIMPLOG_WARN    -> Label("WARN", 2)
      [] loglvl = SIMPLOG_DEBUG   -> Label("DEBUG", 1)
      [] loglvl = SIMPLOG_VERBOSE -> Label("VERB", 2)
      [] loglvl = SIMPLOG_LOGGER  -> Label("LOG", 3)
      [] loglvl = SIMPLOG_TRACE   -> Label("TRACE", 1)

\* lines 121-175: the tab and the label field each branch prints after the date
levelLabel(loglvl) ==
    CASE loglvl = SIMPLOG_FATAL   -> Label("FATAL", 1)
      [] loglvl = SIMPLOG_ERROR   -> Label("ERROR", 1)
      [] loglvl = SIMPLOG_INFO    -> Label("INFO", 2)
      [] loglvl = SIMPLOG_WARN    -> Label("WARN", 2)
      [] loglvl = SIMPLOG_DEBUG   -> Label("DEBUG", 1)
      [] loglvl = SIMPLOG_VERBOSE -> Label("DEBUG", 1)
      [] loglvl = SIMPLOG_LOGGER  -> Label("LOG", 3)
      [] loglvl = SIMPLOG_TRACE   -> Label("TRACE", 1)

\* levelColor with the color of an error copied from the fatal branch
levelColor_errorAsFatal(loglvl) ==
    CASE loglvl \in {SIMPLOG_FATAL, SIMPLOG_ERROR} -> COL_FATAL
      [] loglvl = SIMPLOG_INFO    -> COL_INFO
      [] loglvl = SIMPLOG_WARN    -> COL_WARN
      [] loglvl = SIMPLOG_DEBUG   -> COL_DEBUG
      [] loglvl = SIMPLOG_VERBOSE -> COL_VERBOSE
      [] loglvl = SIMPLOG_LOGGER  -> COL_LOGGER
      [] loglvl = SIMPLOG_TRACE   -> COL_TRACE

\* lines 120-174: the color each branch copies into outColor
levelColor(loglvl) ==
    CASE loglvl = SIMPLOG_FATAL   -> COL_FATAL
      [] loglvl = SIMPLOG_ERROR   -> COL_ERROR
      [] loglvl = SIMPLOG_INFO    -> COL_INFO
      [] loglvl = SIMPLOG_WARN    -> COL_WARN
      [] loglvl = SIMPLOG_DEBUG   -> COL_DEBUG
      [] loglvl = SIMPLOG_VERBOSE -> COL_VERBOSE
      [] loglvl = SIMPLOG_LOGGER  -> COL_LOGGER
      [] loglvl = SIMPLOG_TRACE   -> COL_TRACE

\* lines 118-125: the prefix and the color of a level below SIMPLOG_INFO; for a
\* level that is neither FATAL nor ERROR msg is left as malloc returned it and
\* outColor keeps the normal color
errorBranch(loglvl, date, junk) ==
    IF loglvl = SIMPLOG_FATAL \/ loglvl = SIMPLOG_ERROR
    THEN [color |-> levelColor(loglvl), head |-> date \o levelLabel(loglvl)]
    ELSE [color |-> COL_NORM, head |-> Uninit(junk)]

\* levelValid with the debug level of a warning left unchecked
levelValid_warnUnchecked(loglvl, dbg) ==
    \/ loglvl = SIMPLOG_INFO
    \/ loglvl = SIMPLOG_WARN
    \/ loglvl = SIMPLOG_DEBUG /\ dbg >= SIMPLOG_DEBUG
    \/ loglvl = SIMPLOG_VERBOSE /\ dbg >= SIMPLOG_VERBOSE
    \/ loglvl = SIMPLOG_LOGGER /\ dbg >= SIMPLOG_DEBUG
    \/ loglvl = SIMPLOG_TRACE /\ dbg >= SIMPLOG_DEBUG

\* lines 156-181: the valid combinations of log level and debug level
levelValid(loglvl, dbg) ==
    \/ loglvl = SIMPLOG_INFO
    \/ loglvl = SIMPLOG_WARN /\ dbg >= SIMPLOG_WARN
    \/ loglvl = SIMPLOG_DEBUG /\ dbg >= SIMPLOG_DEBUG
    \/ loglvl = SIMPLOG_VERBOSE /\ dbg >= SIMPLOG_VERBOSE
    \/ loglvl = SIMPLOG_LOGGER /\ dbg >= SIMPLOG_DEBUG
    \/ loglvl = SIMPLOG_TRACE /\ dbg >= SIMPLOG_DEBUG

\* lines 151-181: the match of log level and debug level; the records of the
\* logger itself and the stack traces are not to be wrapped
levelBranch(loglvl, dbg, date) ==
    IF levelValid(loglvl, dbg)
    THEN [valid |-> TRUE, wrap |-> loglvl \notin {SIMPLOG_LOGGER, SIMPLOG_TRACE},
          color |-> levelColor(loglvl),
          head |-> date \o levelLabel(loglvl)]
    ELSE [valid |-> FALSE, wrap |-> TRUE, color |-> COL_NORM, head |-> <<>>]

\* lines 136-141: the errno line; dateLengthSpacing is filled with spaces and
\* is not terminated, so %s runs on into whatever follows it on the stack
errnoLine(e, date, junk) ==
    IF e # 0
    THEN <<Sp(strlen(date) + 1)>> \o Uninit(junk)
         \o <<Lit("\terrno : "), strerror(e), NL>>
    ELSE <<>>

\* lines 99-105: the size of the buffer the record is built in
msgSize(date, va_msg, e) ==
    LET stringSize   == strlen(date) + strlen(va_msg) + 10
        lineWrapSize == 32 * (stringSize \div lineWidth)
    IN  stringSize + lineWrapSize + strerror(e).n + 50

\* wrapCheck that hands over a record of exactly lineWidth bytes as well
wrapCheck_atWidth(wrapSetting, wrap, msg, size) ==
    IF wrapSetting /\ wrap /\ strlen(msg) >= lineWidth THEN wrapLines(msg, size)
    ELSE [msg |-> msg, fault |-> "none"]

\* lines 130-133, 188-191
wrapCheck(wrapSetting, wrap, msg, size) ==
    IF wrapSetting /\ wrap /\ strlen(msg) > lineWidth THEN wrapLines(msg, size)
    ELSE [msg |-> msg, fault |-> "none"]

\* what a store past the end of a buffer does is an outcome of the build:
\* the locals or the allocator data behind the buffer are damaged and the
\* process ends with SIGSEGV at their next use, or with SIGABRT where the
\* stack guard or the allocator notices, or nothing is noticed
OverrunOutcomes == {"unnoticed", "SIGABRT", "SIGSEGV"}

\* what a fault of wrapLines does to the process: the dereference of NULL and
\* the copy of nearly SIZE_MAX bytes end it with SIGSEGV, an overrun of
\* tempBuf or wrapText as S.guard tells
Fatal(S, fault) ==
    fault \in {"null", "size"} \/ (fault = "overrun" /\ S.guard # "unnoticed")

killed(S, fault) ==
    [S EXCEPT !.proc = [alive |-> FALSE,
                        code |-> IF fault = "overrun" /\ S.guard = "SIGABRT"
                                 THEN 134 ELSE 139]]

\* lines 218-224: 0 when no notice is due, else the byte count it reports
truncated_size(va_string_size, size) ==
    IF va_string_size > size THEN va_string_size - size ELSE 0

truncationNotice(k) ==
    Msg(Len("Previous message truncated by %d bytes to fit into buffer"),
        <<Lit("Previous message truncated by " \o ToString(k)
              \o " bytes to fit into buffer")>>)

\* lines 118-148
writeError(S, log, loglvl, va_msg, date, junk) ==
    LET b == errorBranch(loglvl, date, junk)
        output(r) ==
            LET msg == r.msg \o errnoLine(S.errno, date, junk)
                S1  == write(S, log, msg)
            IN  IF Fatal(S, r.fault) THEN killed(S, r.fault)
                ELSE IF ~S.silentMode
                THEN write(write(S1, STDERR_FILENO, <<b.color>>), STDERR_FILENO, msg)
                ELSE S1
    IN  output(wrapCheck(S.lineWrap, TRUE, b.head \o va_msg \o <<NL>>,
                         msgSize(date, va_msg, S.errno)))

\* lines 149-201
writeOther(S, log, loglvl, va_msg, date) ==
    LET b == levelBranch(loglvl, S.dbgLevel, date)
        output(r) ==
            LET S1 == write(S, log, r.msg)
            IN  IF Fatal(S, r.fault) THEN killed(S, r.fault)
                ELSE IF ~S.silentMode
                THEN write(write(S1, STDOUT_FILENO, <<b.color>>), STDOUT_FILENO, r.msg)
                ELSE S1
    IN  IF ~b.valid THEN S
        ELSE output(wrapCheck(S.lineWrap, b.wrap, b.head \o va_msg \o <<NL>>,
                              msgSize(date, va_msg, S.errno)))

\* lines 203-205
resetColors(S) ==
    write(write(S, STDOUT_FILENO, <<COL_NORM>>), STDERR_FILENO, <<COL_NORM>>)

RECURSIVE writeLog(_, _, _, _)
writeLog(S, loglvl, m, junk) ==
    LET size   == m.fmt + max_va_list_size
        va_string_size == strlen(m.text)
        va_msg == vsnprintf(m.text, size)
        S1     == open(S, S.logFile)
        log    == S1.ret
        date   == getDateString
        k      == truncated_size(va_string_size, size)
        finish(S2) ==
            LET S3 == close(resetColors(S2), log)
            IN  IF ~S2.proc.alive THEN S2
                ELSE IF k > 0
                THEN writeLog(S3, SIMPLOG_LOGGER, truncationNotice(k), FALSE)
                ELSE S3
    IN  finish(IF loglvl < SIMPLOG_INFO
               THEN writeError(S1, log, loglvl, va_msg, date, junk)
               ELSE writeOther(S1, log, loglvl, va_msg, date))

----------------------------------------------------------------------------
(* The settings *)

\* a format string and the text it renders to with its arguments
Fmt(str, text) == Msg(Len(str), text)

onOff(b) == IF b THEN "enabled" ELSE "disabled"

\* lines 348-361: the usage hint, which is passed to writeLog as its format
usageHint(level) ==
    <<Lit("Invalid debug level of '" \o ToString(level)
          \o "'. Setting to default value of '" \o ToString(SIMPLOG_DEBUG) \o "'\n")>>
    \o indentedLineSpacing \o <<Lit("Valid Debug Levels:\n")>>
    \o indentedLineSpacing \o <<Lit("0  : Info\n")>>
    \o indentedLineSpacing \o <<Lit("1  : Warnings\n")>>
    \o indentedLineSpacing \o <<Lit("2  : Debug\n")>>
    \o indentedLineSpacing \o <<Lit("3  : Debug-Verbose")>>

\* validLevel without its lower limit
validLevel_noLowerLimit(level) == level <= SIMPLOG_VERBOSE

\* line 341
validLevel(level) == level >= SIMPLOG_INFO /\ level <= SIMPLOG_VERBOSE

\* setLogDebugLevel that rejects an invalid level and keeps the level it had
setLogDebugLevel_keepsLevel(S, level) ==
    IF validLevel(level)
    THEN writeLog([S EXCEPT !.dbgLevel = level], SIMPLOG_LOGGER,
                  Fmt("Debug level set to %d",
                      <<Lit("Debug level set to " \o ToString(level))>>), FALSE)
    ELSE writeLog(S, SIMPLOG_LOGGER, Msg(strlen(usageHint(level)), usageHint(level)), FALSE)

setLogDebugLevel(S, level) ==
    IF validLevel(level)
    THEN writeLog([S EXCEPT !.dbgLevel = level], SIMPLOG_LOGGER,
                  Fmt("Debug level set to %d",
                      <<Lit("Debug level set to " \o ToString(level))>>), FALSE)
    ELSE writeLog([S EXCEPT !.dbgLevel = SIMPLOG_DEBUG], SIMPLOG_LOGGER,
                  Msg(strlen(usageHint(level)), usageHint(level)), FALSE)

\* setLogFile that logs before it stores the path
setLogFile_logsFirst(S, file) ==
    [writeLog(S, SIMPLOG_LOGGER,
              Fmt("Log file set to '%s'", <<Lit("Log file set to '" \o file \o "'")>>), FALSE)
     EXCEPT !.logFile = file]

setLogFile(S, file) ==
    writeLog([S EXCEPT !.logFile = file], SIMPLOG_LOGGER,
             Fmt("Log file set to '%s'", <<Lit("Log file set to '" \o file \o "'")>>), FALSE)

setLogSilentMode(S, silent) ==
    writeLog([S EXCEPT !.silentMode = silent], SIMPLOG_LOGGER,
             Fmt("Silent mode %s", <<Lit("Silent mode " \o onOff(silent))>>), FALSE)

\* setLineWrap that turns the console on as well
setLineWrap_resetsSilent(S, wrap) ==
    writeLog([S EXCEPT !.lineWrap = wrap, !.silentMode = FALSE], SIMPLOG_LOGGER,
             Fmt("Line wrapping %s", <<Lit("Line wrapping " \o onOff(wrap))>>), FALSE)

setLineWrap(S, wrap) ==
    writeLog([S EXCEPT !.lineWrap = wrap], SIMPLOG_LOGGER,
             Fmt("Line wrapping %s", <<Lit("Line wrapping " \o onOff(wrap))>>), FALSE)

----------------------------------------------------------------------------
(* flushLog *)

\* access( path, F_OK ): S.ret is 0 when the file exists, else -1 with errno set
access(S, path) ==
    IF S.fs[path].exists
    THEN [S EXCEPT !.ret = 0, !.io = Append(@, Ev("access", 0, path, <<>>))]
    ELSE [S EXCEPT !.ret = -1, !.errno = ENOENT,
                   !.io = Append(@, Ev("access", -1, path, <<>>))]

\* remove( path ): fails in a directory without write permission
remove(S, path) ==
    IF path \in ReadOnlyDir
    THEN [S EXCEPT !.ret = -1, !.errno = EACCES,
                   !.io = Append(@, Ev("remove", -1, path, <<>>))]
    ELSE [S EXCEPT !.ret = 0, !.fs[path] = Absent,
                   !.io = Append(@, Ev("remove", 0, path, <<>>))]

\* lines 416-419: perror writes to stderr, exit( -1 ) ends the process with status 255
flushFailed(S) ==
    [write(S, STDERR_FILENO,
           <<Lit("ERROR: Unable to flush logfile!"), Lit(": "), strerror(S.errno), Lit("\n")>>)
     EXCEPT !.proc = [alive |-> FALSE, code |-> 255]]

\* lines 421-427: printf goes through the buffer of stdout, which is written out
\* at the newline when stdout is line buffered (tty) and else by fflush
flushNotice(S, tty) ==
    LET text == getDateString \o
                <<Lit("\tLOG   : Logfile '" \o S.logFile
                      \o "' does not exist. It will be created now.\n")>>
        S1 == write(S, STDOUT_FILENO, <<COL_LOGGER>>)
    IN  IF tty
        THEN write(write(S1, STDOUT_FILENO, text), STDOUT_FILENO, <<COL_NORM>>)
        ELSE write(write(S1, STDOUT_FILENO, <<COL_NORM>>), STDOUT_FILENO, text)

\* flushLog that leaves the old log file where it is
flushLog_keepsFile(S, tty) ==
    LET S1 == access(S, S.logFile)
        S2 == IF S1.ret = 0 THEN S1
              ELSE IF ~S.silentMode THEN flushNotice(S1, tty)
              ELSE S1
        S3 == open(S2, S.logFile)
        S4 == close(S3, S3.ret)
    IN  writeLog(S4, SIMPLOG_LOGGER,
                 Fmt("Log file '%s' cleared",
                     <<Lit("Log file '" \o S.logFile \o "' cleared")>>), FALSE)

flushLog(S, tty) ==
    LET S1 == access(S, S.logFile)
        S2 == IF S1.ret = 0 THEN remove(S1, S.logFile)
              ELSE IF ~S.silentMode THEN flushNotice(S1, tty)
              ELSE S1
        S3 == open(S2, S.logFile)
        S4 == close(S3, S3.ret)
    IN  IF S1.ret = 0 /\ S2.ret # 0 THEN flushFailed(S2)
        ELSE writeLog(S4, SIMPLOG_LOGGER,
                      Fmt("Log file '%s' cleared",
                          <<Lit("Log file '" \o S.logFile \o "' cleared")>>), FALSE)

----------------------------------------------------------------------------
(* loadConfig *)

ConfigPath == "simplog.config"

\* a config file: whether it can be opened, and its newline-terminated lines
Config(readable, lines) == [readable |-> readable, lines |-> lines]

\* a line "var=val\n"
Line(var, val) == [var |-> var, val |-> val, split |-> TRUE]

\* a line without a '=': a blank line, a comment
Bare(text) == [var |-> text, val |-> "", split |-> FALSE]

\* atoi on the values the config files of the model hold
atoi(val) ==
    CASE val = "0"  -> 0
      [] val = "1"  -> 1
      [] val = "2"  -> 2
      [] val = "3"  -> 3
      [] val = "7"  -> 7
      [] val = "-1" -> -1
      [] OTHER      -> 0

\* lines 501-532: a line without a '=' leaves splitL where the line before
\* had it, at or before startL, and strncpy is called with a negative size
\* (set.fault); boolVal is assigned only for "true" and "false", and for any
\* other value it is read uninitialized (ub)
parseLine(set, line, ub) ==
    LET boolVal == IF line.val = "true" THEN TRUE
                   ELSE IF line.val = "false" THEN FALSE
                   ELSE ub
    IN  IF ~line.split THEN [set EXCEPT !.fault = TRUE]
        ELSE IF line.var = "silent" THEN [set EXCEPT !.silent = boolVal]
        ELSE IF line.var = "flush" THEN [set EXCEPT !.flush = boolVal]
        ELSE IF line.var = "wrap" THEN [set EXCEPT !.wrap = boolVal]
        ELSE IF line.var = "debug" THEN [set EXCEPT !.debug = atoi(line.val)]
        ELSE IF line.var = "logfile" THEN [set EXCEPT !.logfile = line.val]
        ELSE set

RECURSIVE parseConfig(_, _, _)
parseConfig(set, lines, ub) ==
    IF lines = <<>> \/ set.fault THEN set
    ELSE parseConfig(parseLine(set, Head(lines), ub), Tail(lines), ub)

\* lines 452-458
defaultSettings(S) ==
    [silent |-> S.silentMode, wrap |-> S.lineWrap, flush |-> FALSE,
     debug |-> S.dbgLevel, logfile |-> S.logFile, fault |-> FALSE]

\* lines 473-487: the first read returns the file; the loop then reads from
\* descriptor fd + bytesRead, which is not open, and ends on its error
readConfig(S, cfg) ==
    LET S1 == [S EXCEPT !.io = Append(@, Ev("open", LOG_FD, ConfigPath, <<>>)),
                        !.fd3 = ConfigPath]
        S2 == [S1 EXCEPT !.io = Append(@, Ev("read", LOG_FD, ConfigPath, <<>>))]
        S3 == IF cfg.lines = <<>> THEN S2
              ELSE [S2 EXCEPT !.errno = EBADF,
                              !.io = Append(@, Ev("read", -1, "", <<>>))]
    IN  close(S3, LOG_FD)

\* configUnreadable that falls back to the default threshold
configUnreadable_resetsLevel(S) ==
    LET S1 == [S EXCEPT !.errno = ENOENT,
                        !.io = Append(@, Ev("open", -1, ConfigPath, <<>>))]
        S2 == writeLog(S1, SIMPLOG_LOGGER,
                       Fmt("Unable to open config file: '%s'",
                           <<Lit("Unable to open config file: '" \o ConfigPath \o "'")>>), FALSE)
    IN  [S2 EXCEPT !.errno = 0, !.dbgLevel = SIMPLOG_DEBUG]

\* lines 461-471
configUnreadable(S) ==
    LET S1 == [S EXCEPT !.errno = ENOENT,
                        !.io = Append(@, Ev("open", -1, ConfigPath, <<>>))]
        S2 == writeLog(S1, SIMPLOG_LOGGER,
                       Fmt("Unable to open config file: '%s'",
                           <<Lit("Unable to open config file: '" \o ConfigPath \o "'")>>), FALSE)
    IN  [S2 EXCEPT !.errno = 0]

\* applySettings that flushes before it sets the log file
applySettings_flushFirst(S, set, tty) ==
    LET S1 == IF set.flush THEN flushLog(S, tty) ELSE S
        S2 == IF set.silent THEN [S1 EXCEPT !.logFile = set.logfile]
              ELSE setLogFile(S1, set.logfile)
    IN  IF ~S1.proc.alive THEN S1
        ELSE setLogDebugLevel(
                 setLineWrap(setLogSilentMode(S2, set.silent), set.wrap), set.debug)

\* lines 539-551
applySettings(S, set, tty) ==
    LET S1 == IF set.silent THEN [S EXCEPT !.logFile = set.logfile]
              ELSE setLogFile(S, set.logfile)
        S2 == IF set.flush THEN flushLog(S1, tty) ELSE S1
    IN  IF ~S2.proc.alive THEN S2
        ELSE setLogDebugLevel(
                 setLineWrap(setLogSilentMode(S2, set.silent), set.wrap), set.debug)

\* lines 476-497: settingsBuffer comes from malloc and read() ends it with no
\* terminator, so the parse loop runs on through the stray bytes that follow
\* the content of the file up to the first NUL byte
settingsBuffer(cfg, stray) == cfg.lines \o stray

loadConfig(S, cfg, ub, tty, stray) ==
    LET S1  == readConfig(S, cfg)
        set == parseConfig(defaultSettings(S), settingsBuffer(cfg, stray), ub)
    IN  IF ~cfg.readable THEN configUnreadable(S)
        ELSE IF set.fault THEN killed(S1, "size")
        ELSE applySettings(S1, set, tty)

----------------------------------------------------------------------------
(* writeStackTrace *)

max_backtrace_size == 15
\* sizeof( backtrace_strings ), a char**
POINTER_SIZE == 8
\* line 256
max_message_size == POINTER_SIZE * 255

\* the description the resolver gives of frame i of the capture; frame 0 is
\* writeStackTrace itself
frame(i, len) == Run("#" \o ToString(i), len)

\* the description backtrace_symbols gives of frame i
symbol(i, len) == Run("@" \o ToString(i), len)

\* backtrace_strings that never falls back on backtrace_symbols
backtrace_strings_resolvedOnly(bt, pretty) ==
    [i \in 0..(bt.n - 1) |-> frame(i, bt.len)]

\* lines 246-250: the resolved descriptions, and those of backtrace_symbols
\* when getPrettyBacktrace returned NULL
backtrace_strings(bt, pretty) ==
    [i \in 0..(bt.n - 1) |-> IF pretty THEN frame(i, bt.len) ELSE symbol(i, bt.len)]

resolverCommand == "addr2line -Cfispe"

\* line 688: popen( command_string, "r" ) when it succeeds
popen(S) == [S EXCEPT !.pipes = @ + 1]

\* line 719
pclose(S) == [S EXCEPT !.pipes = @ - 1]

\* lines 619-734: S.ret is 1 when the resolved descriptions are returned and 0
\* when NULL is, after a record that tells why. When readlink fails line 663
\* stores a zero at exe_path[-1], below the array: no build that was tried
\* shows an effect of it. Every pass of the loop of lines 683-720 opens a
\* pipe and closes it at line 719; the pass whose fgets fails returns at
\* line 707 with its pipe open.
getPrettyBacktrace(S, bt) ==
    LET fallback(m) == [writeLog(S, SIMPLOG_LOGGER, m, FALSE) EXCEPT !.ret = 0]
        unread(m) == [writeLog(popen(S), SIMPLOG_LOGGER, m, FALSE) EXCEPT !.ret = 0]
    IN  IF bt.res = "no_tool"
        THEN fallback(Plain("Function 'addr2line' unavailable. Defaulting to standard backtrace. Please install package 'binutils' for better stacktrace output."))
        ELSE IF bt.res = "no_path"
        THEN fallback(Plain("Unable to get execution path. Defaulting to standard backtrace."))
        ELSE IF bt.n > 0 /\ bt.res = "popen_failed"
        THEN fallback(Fmt("Failed to execute command: '%s'. Defaulting to standard backtrace.",
                          <<Lit("Failed to execute command: '" \o resolverCommand
                                \o "'. Defaulting to standard backtrace.")>>))
        ELSE IF bt.n > 0 /\ bt.res = "fgets_failed"
        THEN unread(Plain("Failed to get pretty backtrace strings. Defaulting to standard backtrace."))
        ELSE IF bt.n = 0 \/ bt.res # "resolved"
        THEN fallback(Fmt("Command '%s' failed to evaluate addresses. Defaulting to standard backtrace.",
                          <<Lit("Command '" \o resolverCommand
                                \o "' failed to evaluate addresses. Defaulting to standard backtrace.")>>))
        ELSE [pclose(popen(S)) EXCEPT !.ret = 1]

traceHeader ==
    <<Lit("StackTrace - Most recent calls appear first:\n")>> \o indentedLineSpacing

truncationMarker == Lit(" [backtrace truncated]")

Max(a, b) == IF a > b THEN a ELSE b

\* lines 274-300: b.text is what the buffer holds below b.offset, b.marker tells
\* that the marker was stored at b.offset, b.high is one past the last byte stored
RECURSIVE traceLoop(_, _, _, _)
traceLoop(b, i, backtrace_size, strings) ==
    IF i >= backtrace_size THEN b
    ELSE IF b.offset + strings[i].n - strlen(traceHeader) > max_message_size
    THEN IF b.offset + truncationMarker.n < max_message_size
         THEN [b EXCEPT !.marker = TRUE, !.high = Max(@, b.offset + truncationMarker.n)]
         ELSE b
    ELSE LET b1 == [b EXCEPT !.text = @ \o <<strings[i]>>,
                             !.offset = @ + strings[i].n,
                             !.high = Max(@, b.offset + strings[i].n)]
             b2 == IF i < backtrace_size - 1
                   THEN [b1 EXCEPT !.text = @ \o <<Lit("\n")>> \o indentedLineSpacing,
                                   !.offset = @ + 1 + strlen(indentedLineSpacing),
                                   !.high = Max(@, b1.offset + 1 + strlen(indentedLineSpacing))]
                   ELSE b1
         IN  traceLoop(b2, i + 1, backtrace_size, strings)

\* traceBuffer whose loop starts at the frame of the capture call
traceBuffer_fromFrame0(bt, strings) ==
    traceLoop([text |-> traceHeader, offset |-> strlen(traceHeader),
               marker |-> FALSE, high |-> strlen(traceHeader) + 1],
              0, bt.n, strings)

\* lines 267-309: the message buffer after the loop and its terminator
traceBuffer(bt, strings) ==
    traceLoop([text |-> traceHeader, offset |-> strlen(traceHeader),
               marker |-> FALSE, high |-> strlen(traceHeader) + 1],
              1, bt.n, strings)

\* the string the buffer holds: it ends at the terminator of lines 302-309
traceMessage(bt, strings) ==
    LET b == traceBuffer(bt, strings)
        stored == b.text \o (IF b.marker THEN <<truncationMarker>> ELSE <<>>)
    IN  IF b.offset >= max_message_size - 1
        THEN Take(stored, max_message_size - 1)
        ELSE Take(stored, b.offset)

\* the loop of lines 274-300 stored past the end of the message buffer
traceOverrun(bt, strings) == traceBuffer(bt, strings).high > max_message_size

\* lines 233-325. A store past the end of message damages the heap: where
\* that is noticed (heap) the process ends at the next malloc, the first of
\* writeLog, and the call goes on where it is not.
writeStackTrace(S, bt, heap) ==
    LET S1 == getPrettyBacktrace(S, bt)
        S2 == [S1 EXCEPT !.errno = 0]
        strings == backtrace_strings(bt, S1.ret = 1)
    IN  IF heap # "unnoticed" /\ traceOverrun(bt, strings)
        THEN killed([S2 EXCEPT !.guard = heap], "overrun")
        ELSE writeLog(S2, SIMPLOG_TRACE, Msg(2, traceMessage(bt, strings)), FALSE)

----------------------------------------------------------------------------
(* The state machine *)

\* the process state an operation starts from
Cur == [dbgLevel |-> dbgLevel, logFile |-> logFile, silentMode |-> silentMode,
        lineWrap |-> lineWrap, errno |-> errno, fs |-> fs, proc |-> proc,
        io |-> <<>>, ret |-> 0, fd3 |-> "", guard |-> "unnoticed", pipes |-> pipes]

Snapshot == [dbgLevel |-> dbgLevel, logFile |-> logFile, silentMode |-> silentMode,
             lineWrap |-> lineWrap, errno |-> errno, fs |-> fs]

\* the host program is running and can call the logger
CanCall == proc.alive /\ nops < MaxOps

\* operation call ran from the current state and left the process in state S
Becomes(S, call) ==
    /\ CanCall
    /\ dbgLevel' = S.dbgLevel
    /\ logFile' = S.logFile
    /\ silentMode' = S.silentMode
    /\ lineWrap' = S.lineWrap
    /\ errno' = S.errno
    /\ fs' = S.fs
    /\ proc' = S.proc
    /\ io' = S.io
    /\ last' = call
    /\ pre' = Snapshot
    /\ nops' = nops + 1
    /\ pipes' = S.pipes
    /\ calls' = calls

Threads == {1, 2}

\* no thread is inside writeLog
NoCall == [pc |-> "idle", loglvl |-> SIMPLOG_INFO, msg |-> <<>>, color |-> COL_NORM, at |-> <<>>]

OldRecord == getDateString \o levelLabel(SIMPLOG_INFO) \o <<Lit("old"), NL>>

Init ==
    /\ dbgLevel = SIMPLOG_DEBUG
    /\ logFile = "default.log"
    /\ silentMode = FALSE
    /\ lineWrap = TRUE
    /\ errno = 0
    /\ fs = [p \in Paths |->
                IF p \in ReadOnlyDir THEN [exists |-> TRUE, data |-> <<OldRecord>>]
                ELSE Absent]
    /\ proc = [alive |-> TRUE, code |-> 0]
    /\ io = <<>>
    /\ last = [op |-> "none"]
    /\ pre = Snapshot
    /\ nops = 0
    /\ pipes = 0
    /\ calls = [t \in Threads |-> NoCall]

Levels == (SIMPLOG_FATAL - ExtraLevels)..(SIMPLOG_TRACE + ExtraLevels)

\* the text of words of the given lengths with a space between them
Words(lens) ==
    [k \in 1..(2 * Len(lens) - 1) |->
        IF k % 2 = 1 THEN Run("w" \o ToString((k + 1) \div 2), lens[(k + 1) \div 2])
        ELSE Sp(1)]

ShortMsg == Msg(Len("Test Info"), <<Lit("Test"), Sp(1), Lit("Info")>>)
\* a "%s" format whose argument is a sentence of 6 words of 9 letters
MidMsg == Msg(2, Words([k \in 1..6 |-> 9]))
\* a "%s" format whose argument is a sentence of 5 words of 9 letters: with
\* the date, the label and the newline a record of exactly lineWidth bytes
EdgeMsg == Msg(2, Words([k \in 1..5 |-> 9]))
\* a "%s" format whose argument is a sentence of 10 words of 9 letters
LongMsg == Msg(2, Words([k \in 1..10 |-> 9]))
\* a "%s" format whose argument runs d bytes past the render buffer, which
\* holds strlen( "%s" ) + max_va_list_size bytes
BigMsg(d) == Msg(2, <<Run("aaa...", 2 + max_va_list_size + d)>>)

\* the messages tried at a level
MsgsAt(loglvl) ==
    {ShortMsg}
    \cup (IF loglvl \in {SIMPLOG_ERROR, SIMPLOG_INFO, SIMPLOG_LOGGER}
          THEN {LongMsg} ELSE {})
    \cup (IF loglvl \in {SIMPLOG_INFO, SIMPLOG_VERBOSE}
          THEN {BigMsg(d) : d \in 0..MaxOver} ELSE {})
    \cup (IF loglvl = SIMPLOG_INFO THEN {MidMsg, EdgeMsg} ELSE {})

\* the values the host program can have put in errno just before it calls;
\* it can as well have left errno as the last operation left it
HostErrnos == {0, EINTR}

\* the bytes of uninitialized memory are an outcome of the build, read only
\* for a level below SIMPLOG_FATAL and for the spacing of the errno line
ReadsUninit(S, loglvl) ==
    loglvl < SIMPLOG_INFO /\ (loglvl < SIMPLOG_FATAL \/ open(S, S.logFile).errno # 0)

\* the outcome of an overrun is read only when wrapLines stores past the end
\* of a buffer
Overruns(S, loglvl, m, junk) ==
    writeLog([S EXCEPT !.guard = "SIGABRT"], loglvl, m, junk).proc.code = 134

\* the host program calls writeLog( loglvl, str, ... )
WriteLog ==
    /\ CanCall
    /\ \E loglvl \in Levels :
         \E m \in MsgsAt(loglvl),
            e \in (IF loglvl < SIMPLOG_INFO THEN HostErrnos \cup {errno} ELSE {errno}) :
           LET S == [Cur EXCEPT !.errno = e]
           IN  \E junk \in (IF ReadsUninit(S, loglvl) THEN BOOLEAN ELSE {FALSE}) :
                 \E guard \in (IF Overruns(S, loglvl, m, junk) THEN OverrunOutcomes ELSE {"unnoticed"}) :
                   Becomes(writeLog([S EXCEPT !.guard = guard], loglvl, m, junk),
                           [op |-> "writeLog", loglvl |-> loglvl, m |-> m,
                            errno |-> e, junk |-> junk, guard |-> guard])

\* values below SIMPLOG_INFO and above SIMPLOG_VERBOSE included
DebugLevels == (SIMPLOG_INFO - ExtraLevels)..(SIMPLOG_VERBOSE + ExtraLevels)

SetLogDebugLevel ==
    \E level \in DebugLevels :
        Becomes(setLogDebugLevel(Cur, level), [op |-> "setLogDebugLevel", level |-> level])

SetLogFile ==
    \E file \in Paths :
        Becomes(setLogFile(Cur, file), [op |-> "setLogFile", file |-> file])

SetLogSilentMode ==
    \E silent \in BOOLEAN :
        Becomes(setLogSilentMode(Cur, silent), [op |-> "setLogSilentMode", silent |-> silent])

SetLineWrap ==
    \E wrap \in BOOLEAN :
        Becomes(setLineWrap(Cur, wrap), [op |-> "setLineWrap", wrap |-> wrap])

\* how stdout is buffered is read only when the notice of line 424 is printed
FlushLog ==
    \E tty \in (IF ~fs[logFile].exists /\ ~silentMode THEN BOOLEAN ELSE {FALSE}) :
        Becomes(flushLog(Cur, tty), [op |-> "flushLog", tty |-> tty])

Configs ==
    { Config(FALSE, <<>>),
      Config(TRUE, <<>>),
      Config(TRUE, <<Line("silent", "true"), Line("debug", "1"), Line("logfile", "x.log")>>),
      Config(TRUE, <<Line("debug", "3"), Line("wrap", "false"), Line("silent", "false"),
                     Line("flush", "true"), Line("logfile", "x.log")>>),
      Config(TRUE, <<Line("debug", "7"), Line("wrap", "false")>>),
      Config(TRUE, <<Line("silent", "yes")>>) }

\* the uninitialized boolVal is read for a boolean key whose value is neither
\* "true" nor "false"
ReadsUb(cfg) ==
    \E i \in DOMAIN cfg.lines :
        /\ cfg.lines[i].var \in {"silent", "flush", "wrap"}
        /\ cfg.lines[i].val \notin {"true", "false"}

HasFlush(cfg) == \E i \in DOMAIN cfg.lines : cfg.lines[i].var = "flush"

\* the bytes malloc left behind the content of the file are an outcome of the
\* build: a NUL byte first, a stale line that reads as a setting, or stale
\* text with a newline and no '='
Strays == {<<>>, <<Line("debug", "0")>>, <<Bare("stale")>>}

LoadConfig ==
    /\ CanCall
    /\ \E cfg \in Configs :
         \E ub \in (IF ReadsUb(cfg) THEN BOOLEAN ELSE {FALSE}),
            tty \in (IF HasFlush(cfg) /\ ~silentMode THEN BOOLEAN ELSE {FALSE}),
            stray \in (IF cfg.readable THEN Strays ELSE {<<>>}) :
           Becomes(loadConfig(Cur, cfg, ub, tty, stray),
                   [op |-> "loadConfig", cfg |-> cfg, ub |-> ub, tty |-> tty,
                    stray |-> stray])

\* what backtrace() and the symbol resolver give: the number of frames, the
\* outcome of the resolution and the length of each frame description
Backtrace(n, res, len) == [n |-> n, res |-> res, len |-> len]

Backtraces ==
    { Backtrace(3, res, 40) :
        res \in {"resolved", "no_tool", "no_path", "popen_failed", "fgets_failed", "all_unknown"} }
    \cup { Backtrace(1, "resolved", 40),
           Backtrace(max_backtrace_size, "resolved", 253),
           Backtrace(max_backtrace_size, "all_unknown", 400) }

\* what a damaged heap does is an outcome of the build and of the layout of
\* the heap, read only when the trace overran its buffer
TraceOverruns(S, bt) ==
    traceOverrun(bt, backtrace_strings(bt, getPrettyBacktrace(S, bt).ret = 1))

WriteStackTrace ==
    /\ CanCall
    /\ \E bt \in Backtraces :
         \E heap \in (IF TraceOverruns(Cur, bt) THEN OverrunOutcomes ELSE {"unnoticed"}) :
           Becomes(writeStackTrace(Cur, bt, heap),
                   [op |-> "writeStackTrace", bt |-> bt, heap |-> heap])

Next ==
    \/ WriteLog
    \/ WriteStackTrace
    \/ LoadConfig
    \/ SetLogDebugLevel
    \/ SetLogFile
    \/ SetLogSilentMode
    \/ SetLineWrap
    \/ FlushLog

Spec == Init /\ [][Next]_vars

\* The records handed to wrapLines: "%s" formats whose argument is a sentence
\* of up to MaxWords words of WordLen letters, or a sentence with one run of
\* LongRun letters, longer than a line, among words of WordLen letters
WordLen == 9
MaxWords == 16
LongRun == 100

Sentences ==
    {[k \in 1..n |-> WordLen] : n \in 1..MaxWords}
    \cup {[k \in 1..n |-> IF k = at THEN LongRun ELSE WordLen] : n \in 1..3, at \in 1..3}

\* levels whose records writeLog wraps, all admitted by the default threshold
WrapLevels == {SIMPLOG_ERROR, SIMPLOG_INFO, SIMPLOG_DEBUG}

\* the host program calls writeLog( loglvl, "%s", sentence )
WriteSentence ==
    /\ CanCall
    /\ \E loglvl \in WrapLevels, lens \in Sentences :
         LET m == Msg(2, Words(lens))
         IN  \E junk \in (IF ReadsUninit(Cur, loglvl) THEN BOOLEAN ELSE {FALSE}) :
               \E guard \in (IF Overruns(Cur, loglvl, m, junk) THEN OverrunOutcomes ELSE {"unnoticed"}) :
                 Becomes(writeLog([Cur EXCEPT !.guard = guard], loglvl, m, junk),
                         [op |-> "writeLog", loglvl |-> loglvl, m |-> m,
                          errno |-> errno, junk |-> junk, guard |-> guard])

NextW == WriteSentence

WrapSpec == Init /\ [][NextW]_vars

----------------------------------------------------------------------------
(* Two threads of the host program call writeLog at the same time: the system
   calls of the two calls are taken one at a time, in any order *)

ThreadLevels == {SIMPLOG_ERROR, SIMPLOG_INFO}

\* thread t logs a text of its own
TextOf(t) == <<Lit("thread"), Sp(1), Lit(ToString(t))>>

\* lines 118 and 142-148, 193-199: the stream of the console a level goes to
consoleOf(loglvl) == IF loglvl < SIMPLOG_INFO THEN STDERR_FILENO ELSE STDOUT_FILENO

\* the two threads start with either value of the silent flag
InitT ==
    /\ dbgLevel = SIMPLOG_DEBUG
    /\ logFile = "default.log"
    /\ silentMode \in BOOLEAN
    /\ lineWrap = TRUE
    /\ errno = 0
    /\ fs = [p \in Paths |->
                IF p \in ReadOnlyDir THEN [exists |-> TRUE, data |-> <<OldRecord>>]
                ELSE Absent]
    /\ proc = [alive |-> TRUE, code |-> 0]
    /\ io = <<>>
    /\ last = [op |-> "none"]
    /\ pre = Snapshot
    /\ nops = 0
    /\ pipes = 0
    /\ calls = [t \in Threads |-> NoCall]

\* the process state as thread t sees it: the system calls issued so far, and
\* its descriptor of the log file once line 95 has opened it
Running(t) ==
    [Cur EXCEPT !.io = io,
                !.fd3 = IF calls[t].pc \in {"idle", "open"} THEN "" ELSE logFile]

\* thread t issued the system call of its statement, which left state S, and
\* goes on to statement to; at keeps the places of its calls among all calls
Issues(t, S, to) ==
    /\ fs' = S.fs
    /\ io' = S.io
    /\ calls' = [calls EXCEPT ![t].pc = to, ![t].at = Append(@, Len(S.io))]
    /\ UNCHANGED <<dbgLevel, logFile, silentMode, lineWrap, errno, proc, last, pre,
                   nops, pipes>>

\* lines 79-92 and 97-141, 151-191: thread t calls writeLog( loglvl, "%s", text )
\* and the record is built in memory of the call
Enter(t) ==
    /\ calls[t].pc = "idle"
    /\ \E loglvl \in ThreadLevels :
         LET date == getDateString
             b    == IF loglvl < SIMPLOG_INFO THEN errorBranch(loglvl, date, FALSE)
                     ELSE levelBranch(loglvl, dbgLevel, date)
             msg  == b.head \o TextOf(t) \o <<NL>>
                     \o (IF loglvl < SIMPLOG_INFO THEN errnoLine(errno, date, FALSE)
                         ELSE <<>>)
         IN  calls' = [calls EXCEPT ![t] = [pc |-> "open", loglvl |-> loglvl, msg |-> msg,
                                            color |-> b.color, at |-> <<>>]]
    /\ UNCHANGED <<dbgLevel, logFile, silentMode, lineWrap, errno, fs, proc, io, last,
                   pre, nops, pipes>>

\* line 95
OpenLog(t) ==
    /\ calls[t].pc = "open"
    /\ Issues(t, open(Running(t), logFile), "file")

\* lines 143 and 194
WriteFile(t) ==
    /\ calls[t].pc = "file"
    /\ Issues(t, write(Running(t), LOG_FD, calls[t].msg),
              IF silentMode THEN "resetOut" ELSE "color")

\* lines 146 and 197
WriteColor(t) ==
    /\ calls[t].pc = "color"
    /\ Issues(t, write(Running(t), consoleOf(calls[t].loglvl), <<calls[t].color>>), "text")

\* lines 147 and 198
WriteText(t) ==
    /\ calls[t].pc = "text"
    /\ Issues(t, write(Running(t), consoleOf(calls[t].loglvl), calls[t].msg), "resetOut")

\* line 204
ResetOut(t) ==
    /\ calls[t].pc = "resetOut"
    /\ Issues(t, write(Running(t), STDOUT_FILENO, <<COL_NORM>>), "resetErr")

\* line 205
ResetErr(t) ==
    /\ calls[t].pc = "resetErr"
    /\ Issues(t, write(Running(t), STDERR_FILENO, <<COL_NORM>>), "close")

\* line 211
CloseLog(t) ==
    /\ calls[t].pc = "close"
    /\ Issues(t, close(Running(t), LOG_FD), "done")

NextT ==
    \E t \in Threads :
        \/ Enter(t)
        \/ OpenLog(t)
        \/ WriteFile(t)
        \/ WriteColor(t)
        \/ WriteText(t)
        \/ ResetOut(t)
        \/ ResetErr(t)
        \/ CloseLog(t)

ThreadsSpec == InitT /\ [][NextT]_vars

----------------------------------------------------------------------------
(* What the operation that ran last did *)

\* the data of the writes to descriptor fd among the system calls ev, in order
RECURSIVE WritesTo(_, _)
WritesTo(ev, fd) ==
    IF ev = <<>> THEN <<>>
    ELSE (IF Head(ev).call = "write" /\ Head(ev).fd = fd THEN <<Head(ev).data>> ELSE <<>>)
         \o WritesTo(Tail(ev), fd)

\* the system calls of the outermost writeLog: those up to its close
RECURSIVE FirstCall(_)
FirstCall(ev) ==
    IF ev = <<>> THEN <<>>
    ELSE IF Head(ev).call = "close" THEN <<Head(ev)>>
    ELSE <<Head(ev)>> \o FirstCall(Tail(ev))

\* the destination file could be opened by the outermost writeLog
OpenedOk == io # <<>> /\ io[1].call = "open" /\ io[1].fd # -1

\* what the operation appended to file p
NewData(p) == SubSeq(fs[p].data, Len(pre.fs[p].data) + 1, Len(fs[p].data))

HasText(rec, str) == \E i \in DOMAIN rec : rec[i].s = str

\* the fragments of sub are consecutive fragments of rec
Contains(rec, sub) ==
    \E i \in 0..(Len(rec) - Len(sub)) : SubSeq(rec, i + 1, i + Len(sub)) = sub

\* the tab and the 8-character label field the specification gives each level
LabelField(L) ==
    CASE L = SIMPLOG_FATAL -> Label("FATAL", 1)
      [] L = SIMPLOG_ERROR -> Label("ERROR", 1)
      [] L = SIMPLOG_INFO  -> Label("INFO", 2)
      [] L = SIMPLOG_WARN  -> Label("WARN", 2)
      [] L \in {SIMPLOG_DEBUG, SIMPLOG_VERBOSE} -> Label("DEBUG", 1)
      [] L = SIMPLOG_LOGGER -> Label("LOG", 3)
      [] L = SIMPLOG_TRACE  -> Label("TRACE", 1)

\* the records among recs that carry the text of message m
Carrying(recs, m) == {i \in DOMAIN recs : HasText(recs[i], m.text[1].s)}

IsNotice(rec) ==
    \E i \in DOMAIN rec, k \in 0..(MaxOver + 2) :
        rec[i].s = "Previous message truncated by " \o ToString(k) \o " bytes to fit into buffer"

PublicLevels == SIMPLOG_FATAL..SIMPLOG_VERBOSE
KnownLevels == SIMPLOG_FATAL..SIMPLOG_TRACE

\* the table of the level policy: what level L passes under threshold T
Admitted(L, T) ==
    IF L \in {SIMPLOG_LOGGER, SIMPLOG_TRACE} THEN T >= SIMPLOG_DEBUG
    ELSE L <= SIMPLOG_INFO \/ L <= T

----------------------------------------------------------------------------
(* The claims *)

\* C1: for every level L in FATAL..VERBOSE and every threshold T in 0..3, a
\* writeLog(L, ...) that returns appends its record to the destination file
\* (which it could open) iff L <= 0 or L <= T; for the pseudo-levels LOGGER and
\* TRACE iff T >= 2.
C1_LevelPolicy ==
    (last.op = "writeLog" /\ last.loglvl \in KnownLevels /\ OpenedOk /\ proc.alive)
    => (Carrying(NewData(pre.logFile), last.m) # {}
          <=> Admitted(last.loglvl, pre.dbgLevel))

\* a warning was rejected under threshold INFO
C1_Witness ==
    /\ last.op = "writeLog" /\ last.loglvl = SIMPLOG_WARN /\ OpenedOk
    /\ pre.dbgLevel = SIMPLOG_INFO
    /\ NewData(pre.logFile) = <<>>

\* C2: a level that is none of the six public levels and none of the two
\* pseudo-levels is silently dropped under every threshold: writeLog appends
\* nothing to any file, writes no message text to stdout or stderr and reports
\* no error.
C2_UnknownLevelDropped ==
    (last.op = "writeLog" /\ last.loglvl \notin KnownLevels)
    => /\ \A p \in Paths : fs[p].data = pre.fs[p].data
       /\ Carrying(WritesTo(io, STDOUT_FILENO), last.m) = {}
       /\ Carrying(WritesTo(io, STDERR_FILENO), last.m) = {}
       /\ proc.alive

\* C3: in every reachable state the verbosity threshold is one of 0, 1, 2, 3.
C3_ThresholdInRange == dbgLevel \in SIMPLOG_INFO..SIMPLOG_VERBOSE

\* a config file with debug=7 was loaded
C3_Witness ==
    /\ last.op = "loadConfig"
    /\ \E i \in DOMAIN last.cfg.lines : last.cfg.lines[i] = Line("debug", "7")
    /\ dbgLevel = SIMPLOG_DEBUG

\* the usage hint among the records recs, at the internal-diagnostic level
HasUsageHint(recs, n) ==
    \E i \in DOMAIN recs :
        /\ Contains(recs[i], LabelField(SIMPLOG_LOGGER))
        /\ HasText(recs[i], "Invalid debug level of '" \o ToString(n)
                              \o "'. Setting to default value of '2'\n")
        /\ HasText(recs[i], "Valid Debug Levels:\n")

\* C4: setLogDebugLevel(n) leaves the threshold at n when n is in 0..3; when
\* n is outside 0..3 it leaves the threshold at the default 2 whatever it was
\* before, returns normally, and emits a usage hint at the internal-diagnostic
\* level to the file (which it could open) and, unless silent, to the console.
C4_SetLogDebugLevel ==
    last.op = "setLogDebugLevel"
    => IF last.level \in SIMPLOG_INFO..SIMPLOG_VERBOSE
       THEN dbgLevel = last.level
       ELSE /\ dbgLevel = 2
            /\ proc.alive
            /\ OpenedOk => HasUsageHint(NewData(pre.logFile), last.level)
            /\ ~pre.silentMode => HasUsageHint(WritesTo(io, STDOUT_FILENO), last.level)
            /\ pre.silentMode => ~HasUsageHint(WritesTo(io, STDOUT_FILENO), last.level)

\* an invalid level was given while the threshold was INFO
C4_Witness ==
    /\ last.op = "setLogDebugLevel" /\ last.level = SIMPLOG_VERBOSE + 1
    /\ pre.dbgLevel = SIMPLOG_INFO
    /\ dbgLevel = SIMPLOG_DEBUG
    /\ HasUsageHint(NewData(pre.logFile), last.level)

\* C5: while the silent flag is true, a writeLog call at any level, emitting
\* or not, writes no byte at all to stdout or to stderr, and every record the
\* level policy admits is still appended to the destination file.
C5_SilentNoConsoleByte ==
    (last.op = "writeLog" /\ pre.silentMode)
    => /\ WritesTo(io, STDOUT_FILENO) = <<>>
       /\ WritesTo(io, STDERR_FILENO) = <<>>
       /\ (last.loglvl \in KnownLevels /\ OpenedOk /\ Admitted(last.loglvl, pre.dbgLevel))
            => Carrying(NewData(pre.logFile), last.m) # {}

\* C6: when the level policy rejects a writeLog call, the call has no output
\* at all: no byte reaches stdout or stderr, the destination file is not
\* opened or created, and the content of every file is unchanged.
C6_RejectedNoOutput ==
    (last.op = "writeLog" /\ last.loglvl \in KnownLevels
       /\ ~Admitted(last.loglvl, pre.dbgLevel))
    => /\ WritesTo(io, STDOUT_FILENO) = <<>>
       /\ WritesTo(io, STDERR_FILENO) = <<>>
       /\ \A i \in DOMAIN io : io[i].call # "open"
       /\ fs = pre.fs

Reflowed(rec) == \E i \in DOMAIN rec : rec[i].w

HasErrnoLine(rec) == HasText(rec, "\terrno : ")

\* the call was at a known level the policy admits, and the file was opened
EmittedToFile ==
    /\ last.op = "writeLog" /\ last.loglvl \in KnownLevels /\ OpenedOk
    /\ Admitted(last.loglvl, pre.dbgLevel)
    /\ NewData(pre.logFile) # <<>>

\* C7: the record appended for an emitted writeLog call whose text is not
\* wrapped and carries no errno line is exactly the timestamp, a tab, the
\* 8-character label field of the level, the rendered user text (as the render
\* buffer holds it) and a newline.
C7_RecordFormat ==
    EmittedToFile
    => LET rec == NewData(pre.logFile)[1]
       IN  (~Reflowed(rec) /\ ~HasErrnoLine(rec))
           => /\ strlen(LabelField(last.loglvl)) = 1 + 8
              /\ rec = getDateString \o LabelField(last.loglvl)
                       \o Take(last.m.text, last.m.fmt + max_va_list_size - 1)
                       \o <<NL>>

\* a verbose message was emitted and labelled DEBUG
C7_Witness ==
    /\ EmittedToFile /\ last.loglvl = SIMPLOG_VERBOSE
    /\ NewData(pre.logFile)[1]
         = <<Lit("[yyyy-mm-dd"), Sp(1), Lit("hh:mm:ss]"),
             Lit("\tDEBUG"), Sp(1), Lit(":"), Sp(1),
             Lit("Test"), Sp(1), Lit("Info"), Lit("\n")>>

\* the data of every write among the system calls ev, whatever the descriptor
RECURSIVE AllWrites(_)
AllWrites(ev) ==
    IF ev = <<>> THEN <<>>
    ELSE (IF Head(ev).call = "write" THEN <<Head(ev).data>> ELSE <<>>)
         \o AllWrites(Tail(ev))

\* C8: a record gets an errno line iff its level is below INFO and errno was
\* non-zero when writeLog was called, and the line describes that value;
\* nothing the logger does between entry and the check changes it.
C8_ErrnoLine ==
    (last.op = "writeLog" /\ last.loglvl \in KnownLevels)
    => LET recs == AllWrites(io)
       IN  \A i \in Carrying(recs, last.m) :
             /\ HasErrnoLine(recs[i]) <=> (last.loglvl < SIMPLOG_INFO /\ last.errno # 0)
             /\ HasErrnoLine(recs[i]) => HasText(recs[i], strerror(last.errno).s)

\* the color escape the claim gives each level
ColorOf(L) ==
    CASE L = SIMPLOG_FATAL   -> Run("\\x1B[31m", 5)
      [] L = SIMPLOG_ERROR   -> Run("\\x1B[91m", 5)
      [] L = SIMPLOG_INFO    -> Run("\\x1B[37m", 5)
      [] L = SIMPLOG_WARN    -> Run("\\x1B[33m", 5)
      [] L = SIMPLOG_DEBUG   -> Run("\\x1B[94m", 5)
      [] L = SIMPLOG_VERBOSE -> Run("\\x1B[36m", 5)
      [] L = SIMPLOG_LOGGER  -> Run("\\x1B[90m", 5)
      [] L = SIMPLOG_TRACE   -> Run("\\x1B[95m", 5)

ResetEscape == Run("\\x1B[0m", 4)

StreamOf(L) == IF L < SIMPLOG_INFO THEN STDERR_FILENO ELSE STDOUT_FILENO
OtherStream(L) == IF L < SIMPLOG_INFO THEN STDOUT_FILENO ELSE STDERR_FILENO

\* the call was at a known level the policy admits, with the silent flag
\* false, and it returned
EmittedToConsole ==
    /\ last.op = "writeLog" /\ last.loglvl \in KnownLevels /\ proc.alive
    /\ Admitted(last.loglvl, pre.dbgLevel)
    /\ ~pre.silentMode

\* the bytes the outermost writeLog handed to the write on the log descriptor
FileRecord == WritesTo(FirstCall(io), io[1].fd)

\* C9 as amended: for every emitted record with the silent flag false the
\* stream of its level (stderr for FATAL and ERROR, stdout for the others)
\* receives the color escape of the level, then the bytes written to the file,
\* then the reset escape; the other stream receives the reset escape only.
C9_ConsoleRecord ==
    EmittedToConsole
    => /\ Len(FileRecord) = 1
       /\ WritesTo(FirstCall(io), StreamOf(last.loglvl))
            = <<<<ColorOf(last.loglvl)>>, FileRecord[1], <<ResetEscape>>>>
       /\ WritesTo(FirstCall(io), OtherStream(last.loglvl)) = <<<<ResetEscape>>>>

\* C9 as stated: ... the other stream receives nothing.
C9_OtherStreamSilent ==
    EmittedToConsole
    => /\ Len(FileRecord) = 1
       /\ WritesTo(FirstCall(io), StreamOf(last.loglvl))
            = <<<<ColorOf(last.loglvl)>>, FileRecord[1], <<ResetEscape>>>>
       /\ WritesTo(FirstCall(io), OtherStream(last.loglvl)) = <<>>

\* an error record with an errno line went to stderr in light red
C9_Witness ==
    /\ EmittedToConsole /\ last.loglvl = SIMPLOG_ERROR /\ OpenedOk
    /\ HasErrnoLine(NewData(pre.logFile)[1])
    /\ WritesTo(io, STDERR_FILENO)
         = <<<<ColorOf(SIMPLOG_ERROR)>>, NewData(pre.logFile)[1], <<ResetEscape>>>>

\* the byte count a truncation notice reports
NoticeOf(k) ==
    "Previous message truncated by " \o ToString(k) \o " bytes to fit into buffer"

\* C10: whenever the rendered length of a writeLog message exceeds the
\* capacity of the render buffer (strlen(format) + 4146 bytes, terminator
\* included), the emitted record is cut at that capacity and exactly one
\* internal-diagnostic record follows it, under every threshold, reporting the
\* number of bytes that were lost; when the text fits, no such record is written.
C10_TruncationNotice ==
    EmittedToFile
    => LET len  == strlen(last.m.text)
           size == last.m.fmt + max_va_list_size
           new  == NewData(pre.logFile)
       IN  IF len + 1 > size
           THEN /\ strlen(new[1]) = strlen(getDateString) + 1 + 8 + (size - 1) + 1
                /\ Len(new) = 2
                /\ Contains(new[2], LabelField(SIMPLOG_LOGGER))
                /\ HasText(new[2], NoticeOf(len - (size - 1)))
           ELSE \A i \in DOMAIN new : ~IsNotice(new[i])

\* the record that tells that file p was cleared
ClearedRecord(p) ==
    getDateString \o LabelField(SIMPLOG_LOGGER)
    \o <<Lit("Log file '" \o p \o "' cleared"), NL>>

RemoveFailed == \E i \in DOMAIN io : io[i].call = "remove" /\ io[i].fd = -1

\* C12: the logger ends the host process in exactly one situation: flushLog
\* finds the destination file present and deleting it fails, and then the
\* process exits with a non-zero status and no file is recreated; no other
\* operation or failure (an over-long message among them) ends the process.
C12_OnlyFlushEndsProcess ==
    /\ RemoveFailed => ~proc.alive
    /\ ~proc.alive
         => /\ RemoveFailed
            /\ proc.code # 0
            /\ fs = pre.fs
            /\ \A i, j \in DOMAIN io :
                   (io[i].call = "remove" /\ i < j) => io[j].call # "open"
IsPrefix(a, b) == Len(a) <= Len(b) /\ SubSeq(b, 1, Len(a)) = a

\* what the operation did to the files, with p the destination it wrote to:
\* p kept its content as a prefix, p exists when it can be created, and no
\* other file changed
AppendedOnlyTo(p) ==
    /\ IsPrefix(pre.fs[p].data, fs[p].data)
    /\ p \notin NoDir => fs[p].exists
    /\ \A q \in Paths \ {p} : fs[q] = pre.fs[q]

\* C13: setLogFile(p) makes p the destination, and every record a later
\* writeLog emits while p is the destination is appended at the end of p: the
\* content p had remains a prefix of its content, p is created if absent, and
\* no other file (the previous destination in particular) is modified.
C13_AppendsToDestination ==
    /\ last.op = "setLogFile" => (logFile = last.file /\ AppendedOnlyTo(last.file))
    /\ last.op = "writeLog"
         => /\ logFile = pre.logFile
            /\ AppendedOnlyTo(pre.logFile)
            /\ (proc.alive /\ OpenedOk /\ last.loglvl \in KnownLevels
                  /\ Admitted(last.loglvl, pre.dbgLevel))
                 => Carrying(NewData(pre.logFile), last.m) # {}

\* after setLogFile("x.log") had left its record in x.log, a message was
\* appended to it and the first destination was left alone
C13_Witness ==
    /\ last.op = "writeLog" /\ pre.logFile = "x.log"
    /\ pre.fs["x.log"].data # <<>>
    /\ Len(fs["x.log"].data) = Len(pre.fs["x.log"].data) + 1
    /\ ~fs["default.log"].exists
\* the writes of the operation, on any descriptor, that carry one of strs
WritesOf(strs) ==
    {i \in DOMAIN io : io[i].call = "write" /\ \E str \in strs : HasText(io[i].data, str)}

\* the system calls by which flushLog looks for the file and deletes it
FlushCalls == {i \in DOMAIN io : io[i].call \in {"access", "remove"}}

Before(A, B) == \A i \in A, j \in B : i < j

\* the records by which the five steps of loadConfig report what they did
PathStep   == WritesOf({"Log file set to '" \o logFile \o "'"})
FlushStep  == FlushCalls \cup WritesOf({"Log file '" \o logFile \o "' cleared"})
SilentStep == WritesOf({"Silent mode " \o onOff(silentMode)})
WrapStep   == WritesOf({"Line wrapping " \o onOff(lineWrap)})
DebugStep  ==
    WritesOf({"Debug level set to " \o ToString(dbgLevel)}
             \cup {"Invalid debug level of '" \o ToString(n)
                     \o "'. Setting to default value of '2'\n" : n \in {-1, 7}})

\* the config file asks for a flush
FlushRequested(cfg) == \E i \in DOMAIN cfg.lines : cfg.lines[i] = Line("flush", "true")

\* C14: loadConfig on a readable file applies the settings in the order
\* destination path, flushLog if flush=true, silent mode, wrap mode, debug
\* level, whatever the order of the keys in the file: the flush is on the newly
\* configured file and never on the previous one, and the threshold changes
\* last (the records of the steps before it pass or fail the old threshold).
C14_ApplyOrder ==
    (last.op = "loadConfig" /\ last.cfg.readable /\ proc.alive)
    => /\ Before(PathStep, FlushStep \cup SilentStep \cup WrapStep \cup DebugStep)
       /\ Before(FlushStep, SilentStep \cup WrapStep \cup DebugStep)
       /\ Before(SilentStep, WrapStep \cup DebugStep)
       /\ Before(WrapStep, DebugStep)
       /\ FlushCalls # {} <=> FlushRequested(last.cfg)
       /\ \A i \in FlushCalls : io[i].path = logFile
       /\ logFile # pre.logFile => fs[pre.logFile] = pre.fs[pre.logFile]
       /\ SilentStep # {} <=> pre.dbgLevel >= SIMPLOG_DEBUG
       /\ WrapStep # {} <=> pre.dbgLevel >= SIMPLOG_DEBUG
       /\ DebugStep # {} <=> dbgLevel >= SIMPLOG_DEBUG

\* a file that lists debug, wrap, silent, flush, logfile in that order was
\* loaded while default.log held a record: all five steps reported in the
\* fixed order, x.log was flushed and default.log was left as it was
C14_Witness ==
    /\ last.op = "loadConfig" /\ proc.alive
    /\ Len(last.cfg.lines) = 5 /\ last.cfg.lines[1].var = "debug"
    /\ pre.logFile = "default.log" /\ pre.fs["default.log"].data # <<>>
    /\ fs["default.log"] = pre.fs["default.log"]
    /\ PathStep # {} /\ FlushCalls # {} /\ SilentStep # {} /\ WrapStep # {}
    /\ DebugStep # {}
    /\ Len(fs["x.log"].data) = 4
\* the record that tells that the config file could not be opened
UnreadableRecord ==
    getDateString \o LabelField(SIMPLOG_LOGGER)
    \o <<Lit("Unable to open config file: '" \o ConfigPath \o "'"), NL>>

\* loadConfig returned, did not flush and left the four settings and every
\* file but the destination file as they were
ReturnedUnchanged ==
    /\ proc.alive
    /\ FlushCalls = {}
    /\ dbgLevel = pre.dbgLevel /\ logFile = pre.logFile
    /\ silentMode = pre.silentMode /\ lineWrap = pre.lineWrap
    /\ \A p \in Paths \ {logFile} : fs[p] = pre.fs[p]
    /\ logFile \in NoDir => fs[logFile] = pre.fs[logFile]

\* C15 as amended: if the config file cannot be opened, loadConfig returns
\* normally, performs no flush and leaves the threshold, destination path,
\* silent flag and wrap flag exactly as they were; it emits one
\* internal-diagnostic record when the threshold is DEBUG or VERBOSE and no
\* record when the threshold is FATAL/ERROR or INFO.
C15_UnreadableConfig ==
    (last.op = "loadConfig" /\ ~last.cfg.readable)
    => /\ ReturnedUnchanged
       /\ logFile \notin NoDir
            => NewData(logFile) = IF pre.dbgLevel >= SIMPLOG_DEBUG
                                  THEN <<UnreadableRecord>> ELSE <<>>

\* C15 as stated: if the config file cannot be opened, loadConfig emits one
\* internal-diagnostic record, returns normally, performs no flush and leaves
\* the four settings exactly as they were.
C15_OneDiagnosticAlways ==
    (last.op = "loadConfig" /\ ~last.cfg.readable)
    => /\ ReturnedUnchanged
       /\ logFile \notin NoDir => NewData(logFile) = <<UnreadableRecord>>

\* a missing config file was loaded in silent mode under the default
\* threshold: one record, silent mode still on
C15_Witness ==
    /\ last.op = "loadConfig" /\ ~last.cfg.readable
    /\ pre.silentMode /\ silentMode
    /\ pre.dbgLevel = SIMPLOG_DEBUG
    /\ NewData(logFile) = <<UnreadableRecord>>
BoolKeys == {"silent", "wrap", "flush"}

\* every line of the file is key=value with a value the key takes: true or
\* false for the boolean keys, 0..3 for debug
WellFormed(cfg) ==
    \A i \in DOMAIN cfg.lines :
        LET line == cfg.lines[i]
        IN  /\ line.split
            /\ line.var \in BoolKeys => line.val \in {"true", "false"}
            /\ line.var = "debug" => line.val \in {"0", "1", "2", "3"}

Present(cfg, key) == \E i \in DOMAIN cfg.lines : cfg.lines[i].var = key

\* the value of the last line of the file that gives key
Given(cfg, key) ==
    LET at == {i \in DOMAIN cfg.lines : cfg.lines[i].var = key}
    IN  cfg.lines[CHOOSE i \in at : \A j \in at : j <= i].val

\* C16: after loadConfig of a readable file made of newline-terminated
\* key=value lines, each of silent flag, wrap flag, threshold and destination
\* path equals the value given for its key when the key is present and the
\* value it had before the call when the key is absent; with no flush=true
\* line the destination file is not cleared.
C16_ConfigApplied ==
    (last.op = "loadConfig" /\ last.cfg.readable /\ WellFormed(last.cfg) /\ proc.alive)
    => LET cfg == last.cfg
       IN  /\ silentMode = IF Present(cfg, "silent") THEN Given(cfg, "silent") = "true"
                           ELSE pre.silentMode
           /\ lineWrap = IF Present(cfg, "wrap") THEN Given(cfg, "wrap") = "true"
                         ELSE pre.lineWrap
           /\ dbgLevel = IF Present(cfg, "debug") THEN atoi(Given(cfg, "debug"))
                         ELSE pre.dbgLevel
           /\ logFile = IF Present(cfg, "logfile") THEN Given(cfg, "logfile")
                        ELSE pre.logFile
           /\ ~FlushRequested(cfg)
                => FlushCalls = {} /\ IsPrefix(pre.fs[logFile].data, fs[logFile].data)
White == {" ", "\n", "\t"}

\* a text with its consecutive fragments of one name joined
RECURSIVE Joined(_)
Joined(t) ==
    IF Len(t) < 2 THEN t
    ELSE LET join(r) == IF Head(t).s = Head(r).s
                        THEN <<[Head(t) EXCEPT !.n = @ + Head(r).n]>> \o Tail(r)
                        ELSE <<Head(t)>> \o r
         IN  CHOOSE u \in {join(r) : r \in {Joined(Tail(t))}} : TRUE

\* the whitespace-delimited tokens of a text, each with its length
Tokens(t) ==
    LET u == SelectSeq(Joined(t), LAMBDA f : f.s \notin White)
    IN  [i \in DOMAIN u |-> <<u[i].s, u[i].n>>]

\* the length of the longest line of a text whose first line has cur bytes
\* already
RECURSIVE LongestLine(_, _)
LongestLine(t, cur) ==
    IF t = <<>> THEN cur
    ELSE IF Head(t).s = "\n" THEN Max(cur, LongestLine(Tail(t), 0))
    ELSE LongestLine(Tail(t), cur + Head(t).n)

\* the record writeLog built for the last call, before wrapLines
Built == getDateString \o LabelField(last.loglvl) \o last.m.text \o <<NL>>

\* the last operation was a writeLog that built a record of a level that is
\* wrapped, with line wrap on, and could open the destination file
BuiltWrappable ==
    /\ last.op = "writeLog" /\ last.loglvl \in PublicLevels
    /\ Admitted(last.loglvl, pre.dbgLevel)
    /\ pre.lineWrap /\ OpenedOk
    /\ strlen(last.m.text) <= max_va_list_size

\* C17: for every built record longer than 80 characters that contains at
\* least one space, wrapLines (when it returns) produces text in which every
\* line is at most 80 characters long and whose whitespace-delimited tokens,
\* the inserted newline-plus-indent separators counted as whitespace, are the
\* tokens of the record in the original order, none lost, duplicated or split.
C17_WrapKeepsTokens ==
    (BuiltWrappable /\ proc.alive /\ strlen(Built) > lineWidth)
    => \E i \in DOMAIN NewData(pre.logFile) :
          LET out == NewData(pre.logFile)[i]
          IN  /\ LongestLine(out, 0) <= lineWidth
              /\ Tokens(out) = Tokens(Built)

\* the message has a run without whitespace that is longer than a line
LongRuns(m) ==
    {i \in DOMAIN m.text : m.text[i].s \notin White /\ m.text[i].n > lineWidth}

\* fragment i of text t is a whole line of t but for the indent
OwnLine(t, i) ==
    /\ i > 1 /\ t[i - 1].s \in {"\n", "\t"}
    /\ i < Len(t) /\ t[i + 1].s = "\n"

\* C18: when the rendered message contains a whitespace-free run that alone
\* is longer than the wrap width, wrapLines terminates and returns, the run
\* is in the record unsplit and in full on a line of its own, and no write
\* went past the end of the buffer.
C18_LongRunOnOwnLine ==
    (BuiltWrappable /\ LongRuns(last.m) # {})
    => /\ proc.alive
       /\ \E i \in DOMAIN NewData(pre.logFile) :
             LET out == Joined(NewData(pre.logFile)[i])
             IN  /\ ~HasText(out, Uninit(TRUE)[1].s)
                 /\ \A r \in LongRuns(last.m) :
                       \E k \in DOMAIN out :
                          /\ out[k].s = last.m.text[r].s
                          /\ out[k].n = last.m.text[r].n
                          /\ OwnLine(out, k)
\* the records of the stack-trace level among those the operation appended
\* to the destination file
TraceRecords ==
    {i \in DOMAIN NewData(logFile) : Contains(NewData(logFile)[i], LabelField(SIMPLOG_TRACE))}

\* the frames a record lists, by their index in the capture, in the order of
\* the record
FramesOf(rec) ==
    LET names == {frame(i, 1).s : i \in 0..max_backtrace_size}
                   \cup {symbol(i, 1).s : i \in 0..max_backtrace_size}
        listed == SelectSeq(rec, LAMBDA f : f.s \in names)
    IN  [k \in DOMAIN listed |-> listed[k].s]

\* the message of the capture fits the buffer of max_message_size bytes
FitsBuffer(bt) ==
    strlen(traceHeader) + (bt.n - 1) * bt.len
      + (bt.n - 2) * (1 + strlen(indentedLineSpacing)) < max_message_size - 1

\* the one trace record lists the frames 1, 2, ... of the capture in that
\* order, all of them when the message fits the buffer, after the header that
\* says the most recent call is first
ListsFrames(bt) ==
    /\ Cardinality(TraceRecords) = 1
    /\ \A t \in TraceRecords :
          LET rec == NewData(logFile)[t]
              listed == FramesOf(rec)
          IN  /\ HasText(rec, traceHeader[1].s)
              /\ Len(listed) <= Min(bt.n - 1, max_backtrace_size)
              /\ \A k \in DOMAIN listed : listed[k] \in {frame(k, 1).s, symbol(k, 1).s}
              /\ FitsBuffer(bt) => Len(listed) = bt.n - 1

Resolvable(bt) ==
    /\ bt.res # "no_tool"
    /\ bt.res # "no_path"
    /\ bt.res \notin {"popen_failed", "fgets_failed"}
    /\ bt.res # "all_unknown" /\ bt.n > 0

\* the messages by which getPrettyBacktrace tells that it gives up; each
\* names the standard backtrace
FallbackTexts ==
    {"Function 'addr2line' unavailable. Defaulting to standard backtrace. Please install package 'binutils' for better stacktrace output.",
     "Unable to get execution path. Defaulting to standard backtrace.",
     "Failed to execute command: '" \o resolverCommand \o "'. Defaulting to standard backtrace.",
     "Failed to get pretty backtrace strings. Defaulting to standard backtrace.",
     "Command '" \o resolverCommand \o "' failed to evaluate addresses. Defaulting to standard backtrace."}

IsFallbackRecord(rec) ==
    /\ Contains(rec, LabelField(SIMPLOG_LOGGER))
    /\ \E str \in FallbackTexts : HasText(rec, str)

\* rec is a trace record whose frames are all of the resolver (pretty) or all
\* of backtrace_symbols (~pretty)
IsTraceRecordOf(rec, pretty) ==
    /\ Contains(rec, LabelField(SIMPLOG_TRACE))
    /\ \A k \in DOMAIN FramesOf(rec) :
          FramesOf(rec)[k] = IF pretty THEN frame(k, 1).s ELSE symbol(k, 1).s

\* what writeStackTrace appends when its records pass the threshold: the
\* trace of the resolved descriptions alone, or the fallback record and then
\* the trace of the raw descriptions
ResolvedOrFallback(bt) ==
    LET recs == NewData(logFile)
    IN  IF Resolvable(bt)
        THEN Len(recs) = 1 /\ IsTraceRecordOf(recs[1], TRUE)
        ELSE /\ Len(recs) = 2
             /\ IsFallbackRecord(recs[1])
             /\ IsTraceRecordOf(recs[2], FALSE)

Settings == {"dbgLevel", "logFile", "silentMode", "lineWrap"}

\* the settings the last operation left as they were
Kept ==
    {n \in Settings :
        CASE n = "dbgLevel"   -> dbgLevel = pre.dbgLevel
          [] n = "logFile"    -> logFile = pre.logFile
          [] n = "silentMode" -> silentMode = pre.silentMode
          [] n = "lineWrap"   -> lineWrap = pre.lineWrap}

\* C29: writeLog, writeStackTrace and flushLog leave all four settings
\* (threshold, destination path, silent flag, wrap flag) unchanged, and each of
\* setLogDebugLevel, setLogFile, setLogSilentMode and setLineWrap leaves the
\* three settings that are not its own unchanged.
C29_FrameOfSettings ==
    /\ last.op \in {"writeLog", "writeStackTrace", "flushLog"} => Kept = Settings
    /\ last.op = "setLogDebugLevel" => Settings \ {"dbgLevel"} \subseteq Kept
    /\ last.op = "setLogFile" => Settings \ {"logFile"} \subseteq Kept
    /\ last.op = "setLogSilentMode" => Settings \ {"silentMode"} \subseteq Kept
    /\ last.op = "setLineWrap" => Settings \ {"lineWrap"} \subseteq Kept

\* line wrap was turned off in silent mode: silent mode is still on, the
\* threshold and the path are the defaults still
C29_Witness ==
    /\ last.op = "setLineWrap" /\ ~last.wrap
    /\ pre.silentMode /\ pre.lineWrap
    /\ ~lineWrap /\ Kept = Settings \ {"lineWrap"}
\* the confirmation record of a setter
Confirmation(str) == getDateString \o LabelField(SIMPLOG_LOGGER) \o <<Lit(str), NL>>

\* stdout and stderr received nothing but reset escapes
NoTextOnConsole ==
    \A i \in DOMAIN io :
        (io[i].call = "write" /\ io[i].fd \in {STDOUT_FILENO, STDERR_FILENO})
        => io[i].data = <<ResetEscape>>

\* what a setter whose record passes threshold T appended to file p
ConfirmedIn(p, T, str) ==
    NewData(p) = IF T >= SIMPLOG_DEBUG THEN <<Confirmation(str)>> ELSE <<>>

\* setLogDebugLevel(n) with n in 0..3: no record for 0 and 1, one for 2 and 3
\* whatever the threshold was
LevelConfirmedByNewLevel ==
    (last.op = "setLogDebugLevel" /\ validLevel(last.level) /\ logFile \notin NoDir)
    => /\ ConfirmedIn(logFile, last.level, "Debug level set to " \o ToString(last.level))
       /\ last.level < SIMPLOG_DEBUG => NoTextOnConsole

C30_NoticeOnlyAfterRecord ==
    (last.op = "writeLog" /\ proc.alive /\ logFile \notin NoDir)
    => LET new == NewData(logFile)
       IN  \A i \in DOMAIN new :
               IsNotice(new[i])
               => /\ i > 1
                  /\ i - 1 \in Carrying(new, last.m)
                  /\ Admitted(last.loglvl, pre.dbgLevel)

\* the open and close calls among events ev that succeeded, in order
OpenClose(ev) ==
    LET at == {i \in DOMAIN ev : ev[i].call \in {"open", "close"} /\ ev[i].fd # -1}
        nth(k) == CHOOSE i \in at : Cardinality({j \in at : j <= i}) = k
    IN  [k \in 1..Cardinality(at) |-> ev[nth(k)]]

\* every open is followed by the close of the same file before the next open,
\* and nothing stays open at the end
ClosedInTurn(ev) ==
    LET oc == OpenClose(ev)
    IN  /\ Len(oc) % 2 = 0
        /\ \A k \in DOMAIN oc :
               IF k % 2 = 1 THEN oc[k].call = "open"
               ELSE oc[k].call = "close" /\ oc[k].path = oc[k - 1].path

\* every write to a file falls between the open and the close of that file
WrittenWhileOpen(ev) ==
    \A i \in DOMAIN ev :
        (ev[i].call = "write" /\ ev[i].path # "")
        => \E o \in 1..(i - 1) :
               /\ ev[o].call = "open" /\ ev[o].path = ev[i].path
               /\ \A j \in (o + 1)..(i - 1) : ev[j].call \notin {"open", "close"}

\* the destination descriptor discipline of one operation
OneDescriptorAtATime == proc.alive => (ClosedInTurn(io) /\ WrittenWhileOpen(io))

\* C25: the destination file is opened, written and closed within each
\* writeLog call; after any sequence of public operations the logger holds no
\* open descriptor; every writeLog, flushLog and loadConfig call closes each
\* file it opened before it returns, and a nested call opens the file only
\* after the outer call closed it, so at most one destination descriptor is
\* open at any time.
C25_NoOpenDescriptor ==
    /\ OneDescriptorAtATime
    /\ proc.alive => pipes = 0

\* the process state the last writeLog call started from
Started ==
    [dbgLevel |-> pre.dbgLevel, logFile |-> pre.logFile, silentMode |-> pre.silentMode,
     lineWrap |-> pre.lineWrap, errno |-> last.errno, fs |-> pre.fs,
     proc |-> [alive |-> TRUE, code |-> 0],
     io |-> <<>>, ret |-> 0, fd3 |-> "", guard |-> last.guard, pipes |-> pipes]

\* what the last writeLog call leaves behind when it runs with wrap flag w:
\* the files, the system calls with their data, and the fate of the process
WithWrap(w) ==
    LET left(S) == [fs |-> S.fs, io |-> S.io, proc |-> S.proc]
    IN  left(writeLog([Started EXCEPT !.lineWrap = w], last.loglvl, last.m, last.junk))

\* the last call built a record of a level that is wrapped, longer than
\* lineWidth bytes with its newline
BuiltLong ==
    /\ last.loglvl \in PublicLevels
    /\ Admitted(last.loglvl, pre.dbgLevel)
    /\ strlen(Built) > lineWidth

\* C22: wrapLines is applied to a record iff the wrap flag is true, the level
\* is not LOGGER or TRACE, and the built text (with its newline) is longer than
\* 80 bytes: what a writeLog call leaves with the flag true differs from what
\* it leaves with the flag false exactly for such records; in every other
\* case, records of at most 80 bytes included, the two are byte for byte the
\* same. The call that ran is compared with the same call run with the other
\* value of the flag.
C22_WrapAppliedIff ==
    last.op = "writeLog"
    => ((WithWrap(~pre.lineWrap) # [fs |-> fs, io |-> io, proc |-> proc]) <=> BuiltLong)

\* a LOGGER record of more than 80 bytes was written unwrapped with wrap on
C22_Witness ==
    /\ last.op = "writeLog" /\ last.loglvl = SIMPLOG_LOGGER /\ pre.lineWrap
    /\ strlen(Built) > lineWidth
    /\ NewData(pre.logFile) = <<Built>>
    /\ WithWrap(FALSE) = [fs |-> fs, io |-> io, proc |-> proc]

\* the size of a frame description and of the newline and indent after it
Stride(bt) == bt.len + 1 + strlen(indentedLineSpacing)

\* the loop of writeStackTrace stops before a frame of capture bt because the
\* frame does not fit, the frames before it having fit, and at least the 22
\* bytes of the marker remain in the buffer
StopsWithRoom(bt) ==
    \E k \in 0..(bt.n - 2) :
        /\ k * Stride(bt) + bt.len > max_message_size
        /\ k > 0 => (k - 1) * Stride(bt) + bt.len <= max_message_size
        /\ max_message_size - (strlen(traceHeader) + k * Stride(bt)) >= truncationMarker.n

\* the text of record rec ends with the truncation marker
EndsWithMarker(rec) ==
    \E i \in DOMAIN rec : rec[i] = truncationMarker /\ SubSeq(rec, i + 1, Len(rec)) = <<NL>>

\* C23: when writeStackTrace stops appending frames because the next one
\* does not fit and at least 22 bytes remain in the buffer, the text of the
\* trace record that is written ends with " [backtrace truncated]".
C23_TruncationMarker ==
    (/\ last.op = "writeStackTrace" /\ OpenedOk /\ proc.alive
     /\ pre.dbgLevel >= SIMPLOG_DEBUG /\ StopsWithRoom(last.bt))
    => \E t \in TraceRecords : EndsWithMarker(NewData(logFile)[t])

\* the index at which lines 302-309 store the terminator
TerminatorAt(b) ==
    IF b.offset >= max_message_size - 1 THEN max_message_size - 1 ELSE b.offset

\* C24: for every number of captured frames up to 15 and every frame
\* description of up to 254 bytes, writeStackTrace stores no byte at or beyond
\* index max_message_size of the message buffer (header, frames, separators,
\* marker and terminator included), and the text it passes to writeLog is
\* terminated inside the buffer.
C24_TraceWithinBuffer ==
    (/\ last.op = "writeStackTrace"
     /\ last.bt.n <= max_backtrace_size /\ last.bt.len <= 254)
    => LET b == traceBuffer(last.bt, backtrace_strings(last.bt, TRUE))
       IN  /\ b.high <= max_message_size
           /\ TerminatorAt(b) < max_message_size
           /\ last.heap = "unnoticed"

\* C26: for every rendered text and every errno description the buffer of
\* msgSize bytes that writeLog allocates, and wrapLines allocates again for
\* its copy, holds the final record (prefix, text, newline, the indent of
\* every continuation line, the errno line, the terminator): no store of
\* writeLog or wrapLines goes past its end.
C26_RecordFitsBuffer ==
    last.op = "writeLog" => ~Overruns(Started, last.loglvl, last.m, last.junk)

\* the process state the last operation started from, with silent flag v
Entered(v) ==
    [dbgLevel |-> pre.dbgLevel, logFile |-> pre.logFile, silentMode |-> v,
     lineWrap |-> pre.lineWrap,
     errno |-> IF last.op = "writeLog" THEN last.errno ELSE pre.errno,
     fs |-> pre.fs, proc |-> [alive |-> TRUE, code |-> 0],
     io |-> <<>>, ret |-> 0, fd3 |-> "",
     guard |-> IF last.op = "writeLog" THEN last.guard ELSE "unnoticed",
     pipes |-> 0]

\* config cfg with the value v for its silent key
WithSilent(cfg, v) ==
    [cfg EXCEPT !.lines =
        [i \in DOMAIN cfg.lines |->
            IF cfg.lines[i].var = "silent" /\ cfg.lines[i].val \in {"true", "false"}
            THEN [cfg.lines[i] EXCEPT !.val = IF v THEN "true" ELSE "false"]
            ELSE cfg.lines[i]]]

\* the last operation run from state S, with the silent value v where the
\* operation passes one or loads one
Again(S, v) ==
    CASE last.op = "writeLog" -> writeLog(S, last.loglvl, last.m, last.junk)
      [] last.op = "writeStackTrace" -> writeStackTrace(S, last.bt, last.heap)
      [] last.op = "loadConfig" ->
             loadConfig(S, WithSilent(last.cfg, v), last.ub, last.tty, last.stray)
      [] last.op = "setLogDebugLevel" -> setLogDebugLevel(S, last.level)
      [] last.op = "setLogFile" -> setLogFile(S, last.file)
      [] last.op = "setLogSilentMode" -> setLogSilentMode(S, v)
      [] last.op = "setLineWrap" -> setLineWrap(S, last.wrap)
      [] last.op = "flushLog" -> flushLog(S, last.tty)
      [] OTHER -> S

\* a record with the word of the silent-mode confirmation left out
WithoutWord(rec) ==
    [i \in DOMAIN rec |->
        IF rec[i].s \in {"Silent mode " \o onOff(b) : b \in BOOLEAN}
        THEN Lit("Silent mode") ELSE rec[i]]

\* what a run leaves apart from the console and the silent flag: the records
\* of every file without that word, the other settings, the fate of the process
LeftBy(S) ==
    [files |-> [p \in Paths |->
                   [exists |-> S.fs[p].exists,
                    data |-> [k \in DOMAIN S.fs[p].data |-> WithoutWord(S.fs[p].data[k])]]],
     dbgLevel |-> S.dbgLevel, logFile |-> S.logFile, lineWrap |-> S.lineWrap,
     proc |-> S.proc]

\* C27: the silent flag affects the console only: two runs from the same
\* state that apply the same operations and differ only in the silent value
\* passed to setLogSilentMode or given by the silent key of a loaded config
\* leave the same records in every log file, apart from the word enabled or
\* disabled in the silent-mode confirmation. Checked step by step: the last
\* operation, run from the state it started from with either silent flag and
\* either silent value, leaves the same files and the same other settings.
C27_SilentIsConsoleOnly ==
    \A flag \in BOOLEAN, v \in BOOLEAN :
        LeftBy(Again(Entered(flag), v)) = LeftBy(Again(Entered(TRUE), TRUE))

\* the places among the system calls of the writes to descriptor fd
WritesAt(fd) == {i \in DOMAIN io : io[i].call = "write" /\ io[i].fd = fd}

\* the places of the system calls of thread t
CallsOf(t) == {calls[t].at[k] : k \in DOMAIN calls[t].at}

\* the writes by which thread t puts its record on the console: the color
\* prefix, the text and the reset escape on the stream of its level
ConsoleRecord(t) == CallsOf(t) \cap WritesAt(consoleOf(calls[t].loglvl))

\* no write of another thread to the same stream falls between the console
\* writes of thread t
ConsoleWhole(t) ==
    \A i \in ConsoleRecord(t), j \in ConsoleRecord(t) :
        \A k \in WritesAt(consoleOf(calls[t].loglvl)) :
            (i < k /\ k < j) => k \in ConsoleRecord(t)

\* thread t has written its record to the file
Filed(t) == calls[t].pc \notin {"idle", "open", "file"}

\* the file holds one whole record for each thread that has written, and
\* nothing else
FileWhole ==
    LET data == fs[logFile].data
    IN  /\ Len(data) = Cardinality({t \in Threads : Filed(t)})
        /\ \A t \in Threads : Filed(t) => \E k \in DOMAIN data : data[k] = calls[t].msg

\* C21 as amended: under two writeLog calls whose system calls interleave
\* arbitrarily, each record reaches the destination file whole: the bytes of
\* one call's record are contiguous in the file and never separated by bytes
\* of the other call. (On the console the color prefix, the text and the
\* reset escape are three writes, and writes of the other call can fall
\* between them.)
C21_FileRecordWhole == FileWhole

\* C21 as stated: each record reaches each sink atomically, in the file and
\* on each console stream, where the color prefix, the text and the reset
\* escape of one call are never separated by bytes of the other call.
C21_AtomicOnEverySink == FileWhole /\ \A t \in Threads : ConsoleWhole(t)

\* both calls are done and both records are whole in the file, while on
\* stdout the color prefix of thread 1 is followed by a write of thread 2
C21_Witness ==
    /\ \A t \in Threads : calls[t].pc = "done" /\ calls[t].loglvl = SIMPLOG_INFO
    /\ ~silentMode
    /\ fs[logFile].data = <<calls[1].msg, calls[2].msg>>
    /\ ~ConsoleWhole(1)
====
